---- MODULE Spec2Model ----
(***************************************************************************)
(* A model of the scalar value codecs (src/src/types.rs) and of the        *)
(* validated builders (src/src/element.rs, src/src/element/mpd.rs) of      *)
(* mpd-gen.                                                                *)
(*                                                                         *)
(* Texts are sequences of one-character strings.  Unsigned integers (u32,  *)
(* u64) are sequences of decimal digits, most significant first, without   *)
(* leading zeros (zero is <<0>>), so that the integer widths of the code   *)
(* are the real ones: U32_MAX and U64_MAX are the Rust constants.          *)
(***************************************************************************)
EXTENDS Integers, Sequences, FiniteSets, TLC

VARIABLES
    arg,              \* the input of the run: a text or a value
    op,               \* the first operation applied to arg ("init": none yet)
    out,              \* its result
    op2,              \* the operation applied to out ("none": none yet)
    out2,             \* its result
    overflow_checks,  \* the build: TRUE with overflow checks (debug), FALSE without (release)
    ent,              \* the entity kind whose builder is exercised
    builder,          \* the builder: field name -> None or Some(value)
    built,            \* the result of the last build(), or the entity at hand
    results           \* the results of the build() calls so far, in their order

vars == <<arg, op, out, op2, out2, overflow_checks, ent, builder, built, results>>

-----------------------------------------------------------------------------
(* Option and Result values.                                               *)

None == [tag |-> "None"]

Some(v) == [tag |-> "Some", v |-> v]

Ok(v) == [tag |-> "Ok", v |-> v]

Err(e) == [tag |-> "Err", e |-> e]

Panic(m) == [tag |-> "Panic", msg |-> m]

IsOk(r) == r.tag = "Ok"

IsErr(r) == r.tag = "Err"

IsPanic(r) == r.tag = "Panic"

IsSome(o) == o.tag = "Some"

IsNone(o) == o.tag = "None"

-----------------------------------------------------------------------------
(* Texts.                                                                  *)

DigitChars == <<"0", "1", "2", "3", "4", "5", "6", "7", "8", "9">>

IsDigit(c) == \E i \in 1..10 : DigitChars[i] = c

Contains(s, c) == \E i \in 1..Len(s) : s[i] = c

RECURSIVE Concat(_)
Concat(ss) == IF ss = <<>> THEN <<>> ELSE Head(ss) \o Concat(Tail(ss))

\* str::split(sep): the pieces between the occurrences of sep (always >= 1 piece).
RECURSIVE Split(_, _)
Split(s, sep) ==
    LET i == CHOOSE i \in 1..Len(s) : s[i] = sep /\ \A j \in 1..(i - 1) : s[j] # sep
    IN  IF ~Contains(s, sep) THEN <<s>>
        ELSE <<SubSeq(s, 1, i - 1)>> \o Split(SubSeq(s, i + 1, Len(s)), sep)

\* [String]::join(sep)
RECURSIVE Join(_, _)
Join(parts, sep) ==
    IF parts = <<>> THEN <<>>
    ELSE IF Len(parts) = 1 THEN parts[1]
    ELSE parts[1] \o <<sep>> \o Join(Tail(parts), sep)

\* All sequences over S of length 0..n.
RECURSIVE SeqsUpTo(_, _)
SeqsUpTo(S, n) ==
    IF n = 0 THEN {<<>>}
    ELSE LET shorter == SeqsUpTo(S, n - 1)
         IN  shorter \cup {Append(s, x) : s \in shorter, x \in S}

-----------------------------------------------------------------------------
(* Unsigned integers as digit sequences.                                   *)

BigZero == <<0>>

\* a without its leading zeros.
BigNorm(a) ==
    LET nz == {i \in 1..Len(a) : a[i] # 0}
    IN  IF nz = {} THEN BigZero
        ELSE SubSeq(a, CHOOSE i \in nz : \A j \in nz : i <= j, Len(a))

BigIsZero(a) == a = BigZero

BigLess(a, b) ==
    IF Len(a) # Len(b) THEN Len(a) < Len(b)
    ELSE \E i \in 1..Len(a) : a[i] < b[i] /\ \A j \in 1..(i - 1) : a[j] = b[j]

BigLeq(a, b) == a = b \/ BigLess(a, b)

\* a with zeros before it, up to n digits.
PadTo(a, n) == [i \in 1..n |-> IF i <= n - Len(a) THEN 0 ELSE a[i - (n - Len(a))]]

\* The arithmetic is done on limbs, the digits taken by fours: machine
\* integers below 10^4, most significant first.
LIMB == 10000

ToLimbs(a) ==
    LET n == (Len(a) + 3) \div 4
        p == PadTo(a, 4 * n)
    IN  [i \in 1..n |-> p[4 * i - 3] * 1000 + p[4 * i - 2] * 100 + p[4 * i - 1] * 10 + p[4 * i]]

FromLimbs(l) ==
    BigNorm([j \in 1..(4 * Len(l)) |->
                (l[(j + 3) \div 4] \div <<1000, 100, 10, 1>>[((j - 1) % 4) + 1]) % 10])

\* a + b + carry on limb sequences of equal length, from the last limb.
RECURSIVE AddLimbs(_, _, _, _)
AddLimbs(a, b, i, carry) ==
    IF i = 0 THEN (IF carry = 0 THEN <<>> ELSE <<carry>>)
    ELSE LET t == a[i] + b[i] + carry
         IN  IF t < LIMB THEN Append(AddLimbs(a, b, i - 1, 0), t)
             ELSE Append(AddLimbs(a, b, i - 1, 1), t - LIMB)

BigAdd(a, b) ==
    LET n == IF Len(a) > Len(b) THEN Len(a) ELSE Len(b)
        x == ToLimbs(PadTo(a, n))
    IN  FromLimbs(AddLimbs(x, ToLimbs(PadTo(b, n)), Len(x), 0))

\* a - b - borrow on limb sequences of equal length, a >= b.
RECURSIVE SubLimbs(_, _, _, _)
SubLimbs(a, b, i, borrow) ==
    IF i = 0 THEN <<>>
    ELSE LET t == a[i] - b[i] - borrow
         IN  IF t < 0 THEN Append(SubLimbs(a, b, i - 1, 1), t + LIMB)
             ELSE Append(SubLimbs(a, b, i - 1, 0), t)

BigSub(a, b) ==
    LET x == ToLimbs(a)
    IN  FromLimbs(SubLimbs(x, ToLimbs(PadTo(b, Len(a))), Len(x), 0))

\* The digits of a machine integer.
BigFromInt(n) == FromLimbs(<<n \div (LIMB * LIMB), (n \div LIMB) % LIMB, n % LIMB>>)

\* a * k for a small machine integer k (k <= 365 here).
RECURSIVE MulLimbs(_, _, _, _)
MulLimbs(a, k, i, carry) ==
    IF i = 0 THEN (IF carry = 0 THEN <<>> ELSE <<carry>>)
    ELSE LET t == a[i] * k + carry
         IN  IF t < LIMB THEN Append(MulLimbs(a, k, i - 1, 0), t)
             ELSE Append(MulLimbs(a, k, i - 1, t \div LIMB), t % LIMB)

BigMulSmall(a, k) ==
    LET x == ToLimbs(a)
    IN  IF k = 0 THEN BigZero ELSE FromLimbs(MulLimbs(x, k, Len(x), 0))

\* a / k and a % k for a small machine integer k (k <= 3600 here), on the
\* limbs of a: [q, r] after the first i limbs, r being a machine integer.
RECURSIVE DivLimbs(_, _, _)
DivLimbs(a, k, i) ==
    IF i = 0 THEN [q |-> <<>>, r |-> 0]
    ELSE LET prev == DivLimbs(a, k, i - 1)
             cur  == prev.r * LIMB + a[i]
         IN  [q |-> Append(prev.q, cur \div k), r |-> cur % k]

DivSmall(a, k) ==
    LET x  == ToLimbs(a)
        qr == DivLimbs(x, k, Len(x))
    IN  [q |-> FromLimbs(qr.q), r |-> qr.r]

\* Schoolbook division a / b, b # 0: [q, r] after the first i digits of a,
\* the next digit of q being the d with d * b <= cur < (d + 1) * b.
RECURSIVE DivStep(_, _, _)
DivStep(a, b, i) ==
    IF i = 0 THEN [q |-> <<>>, r |-> BigZero]
    ELSE LET prev == DivStep(a, b, i - 1)
             cur  == BigNorm(Append(prev.r, a[i]))
             d    == CHOOSE d \in 0..9 : /\ BigLeq(BigMulSmall(b, d), cur)
                                         /\ BigLess(cur, BigMulSmall(b, d + 1))
         IN  [q |-> Append(prev.q, d), r |-> BigSub(cur, BigMulSmall(b, d))]

BigDiv(a, b) == BigNorm(DivStep(a, b, Len(a)).q)

\* num::integer::gcd: gcd(0, 0) = 0, gcd(a, 0) = a.
RECURSIVE BigGcd(_, _)
BigGcd(a, b) == IF BigIsZero(b) THEN a ELSE BigGcd(b, DivStep(a, b, Len(a)).r)

U32_MAX == <<4, 2, 9, 4, 9, 6, 7, 2, 9, 5>>

U64_MAX == <<1, 8, 4, 4, 6, 7, 4, 4, 0, 7, 3, 7, 0, 9, 5, 5, 1, 6, 1, 5>>

\* The decimal text of an unsigned integer ({} of u32 / u64).
UIntToString(a) == SubSeq([i \in 1..Len(a) |-> DigitChars[a[i] + 1]], 1, Len(a))

\* The digits of a text made of decimal digits only.
DigitsOf(s) ==
    SubSeq([i \in 1..Len(s) |-> (CHOOSE d \in 1..10 : DigitChars[d] = s[i]) - 1], 1, Len(s))

\* str::parse::<u32>() / ::<u64>() (core::num, from_str_radix 10): an optional
\* leading '+', then at least one digit and digits only, and the value must
\* fit the type.
ParseUInt(s, max) ==
    LET body == IF s # <<>> /\ Head(s) = "+" /\ Len(s) > 1 THEN Tail(s) ELSE s
    IN  IF s = <<>> THEN Err("ParseIntError")
        ELSE IF \E i \in 1..Len(body) : ~IsDigit(body[i]) THEN Err("ParseIntError")
        ELSE LET v == BigNorm(DigitsOf(body))
             IN  IF BigLeq(v, max) THEN Ok(v) ELSE Err("ParseIntError")

ParseU32(s) == ParseUInt(s, U32_MAX)

-----------------------------------------------------------------------------
(* xs:duration: XsDuration { value: std::time::Duration, is_negative }.    *)
(* A std::time::Duration is [secs: u64, nanos: u32 < 10^9].                *)

NANOS_PER_SEC == <<1, 0, 0, 0, 0, 0, 0, 0, 0, 0>>

Duration(secs, nanos) == [secs |-> secs, nanos |-> nanos]

\* Duration::from_secs
Duration_from_secs(secs) == Duration(secs, BigZero)

\* Duration::from_nanos: n / 10^9 and n % 10^9, the digits of n before its
\* last nine and those nine.
Duration_from_nanos(n) ==
    IF Len(n) <= 9 THEN Duration(BigZero, n)
    ELSE Duration(SubSeq(n, 1, Len(n) - 9), BigNorm(SubSeq(n, Len(n) - 8, Len(n))))

\* Duration += Duration: checked_add(..).expect("overflow when adding durations"),
\* in every build.
Duration_add(a, b) ==
    LET n     == BigAdd(a.nanos, b.nanos)
        carry == IF BigLess(n, NANOS_PER_SEC) THEN BigZero ELSE <<1>>
        nanos == IF BigLess(n, NANOS_PER_SEC) THEN n ELSE BigSub(n, NANOS_PER_SEC)
        secs  == BigAdd(BigAdd(a.secs, b.secs), carry)
    IN  IF BigLeq(secs, U64_MAX) THEN Ok(Duration(secs, nanos))
        ELSE Panic("overflow when adding durations")

XsDuration(value, is_negative) == [value |-> value, is_negative |-> is_negative]

\* 2^64
U64_MODULUS == <<1, 8, 4, 4, 6, 7, 4, 4, 0, 7, 3, 7, 0, 9, 5, 5, 1, 6, 1, 6>>

\* u64 * k: the product p, below (k + 1) * 2^64, is q * 2^64 and a u64 more.
\* It overflows unless q is 0: with overflow checks that panics, without
\* them the product wraps to that u64.
MulU64(a, k, checks) ==
    LET p == BigMulSmall(a, k)
        q == CHOOSE q \in 0..k : /\ BigLeq(BigMulSmall(U64_MODULUS, q), p)
                                 /\ BigLess(p, BigMulSmall(U64_MODULUS, q + 1))
    IN  IF q = 0 THEN Ok(p)
        ELSE IF checks THEN Panic("attempt to multiply with overflow")
        ELSE Ok(BigSub(p, BigMulSmall(U64_MODULUS, q)))

\* a * k1 * k2 * ..., evaluated left to right.
RECURSIVE MulChainU64(_, _, _)
MulChainU64(a, ks, checks) ==
    IF ks = <<>> THEN Ok(a)
    ELSE LET p == MulU64(a, Head(ks), checks)
         IN  IF IsOk(p) THEN MulChainU64(p.v, Tail(ks), checks) ELSE p

\* The digits that are left of a text once its trailing zeros are dropped
\* (while nanos % 10 == 0 { nanos /= 10 }), nanos # 0.
TrimTrailingZeros(a) ==
    SubSeq(a, 1, CHOOSE i \in 1..Len(a) : a[i] # 0 /\ \A j \in (i + 1)..Len(a) : a[j] = 0)

\* impl fmt::Display for XsDuration
XsDuration_to_string(d) ==
    LET head     == IF d.is_negative THEN <<"-", "P", "T">> ELSE <<"P", "T">>
        by3600   == DivSmall(d.value.secs, 3600)
        hours    == by3600.q
        minutes  == by3600.r \div 60
        seconds  == by3600.r % 60
        h_part   == IF ~BigIsZero(hours) THEN UIntToString(hours) \o <<"H">> ELSE <<>>
        m_part   == IF minutes # 0 THEN UIntToString(BigFromInt(minutes)) \o <<"M">> ELSE <<>>
        s_part   == IF ~BigIsZero(d.value.nanos)
                    THEN UIntToString(BigFromInt(seconds)) \o <<".">>
                         \o UIntToString(TrimTrailingZeros(d.value.nanos)) \o <<"S">>
                    ELSE IF seconds # 0 THEN UIntToString(BigFromInt(seconds)) \o <<"S">>
                    ELSE <<>>
    IN  head \o h_part \o m_part \o s_part

\* flag |= bit
FlagOr(flag, bit) == IF (flag \div bit) % 2 = 1 THEN flag ELSE flag + bit

\* flag & 0b1111_0111
FlagWithoutT(flag) == IF (flag \div 8) % 2 = 1 THEN flag - 8 ELSE flag

\* (value.parse::<f64>()? * 1_000_000_000.0) as u64, value made of digits and one
\* '.': the parse fails without a digit; the cast truncates and saturates at
\* u64::MAX.  The product is taken as the exact decimal one (f64 rounding is
\* not modelled).
SecondsToNanos(value) ==
    LET parts == Split(value, ".")
        ip    == parts[1]
        fp    == parts[2]
    IN  IF ip = <<>> /\ fp = <<>> THEN Err("ParseFloatError")
        ELSE LET frac  == DigitsOf(fp)
                 nine  == [i \in 1..9 |-> IF i <= Len(frac) THEN frac[i] ELSE 0]
                 whole == BigNorm(DigitsOf(ip) \o SubSeq(nine, 1, 9))
             IN  IF BigLeq(whole, U64_MAX) THEN Ok(whole) ELSE Ok(U64_MAX)

\* One arm of the match on the unit letter: value.parse::<u64>()? * factors,
\* duration += Duration::from_secs(..), flag |= bit.
UnitArm(st, factors, bit, checks) ==
    LET n == ParseUInt(st.value, U64_MAX)
    IN  IF ~IsOk(n) THEN n
        ELSE LET secs == MulChainU64(n.v, factors, checks)
             IN  IF ~IsOk(secs) THEN secs
                 ELSE LET sum == Duration_add(st.duration, Duration_from_secs(secs.v))
                      IN  IF ~IsOk(sum) THEN sum
                          ELSE Ok([duration |-> sum.v, flag |-> FlagOr(st.flag, bit),
                                   value |-> <<>>])

\* The 'S' arm: no flag is set.
SecondsArm(st) ==
    LET d == IF Contains(st.value, ".")
             THEN LET n == SecondsToNanos(st.value)
                  IN  IF IsOk(n) THEN Ok(Duration_from_nanos(n.v)) ELSE n
             ELSE LET n == ParseUInt(st.value, U64_MAX)
                  IN  IF IsOk(n) THEN Ok(Duration_from_secs(n.v)) ELSE n
    IN  IF ~IsOk(d) THEN d
        ELSE LET sum == Duration_add(st.duration, d.v)
             IN  IF ~IsOk(sum) THEN sum
                 ELSE Ok([duration |-> sum.v, flag |-> st.flag, value |-> <<>>])

\* A match whose 'H' arm takes an hour before the T marker too.
UnitArmOf_hours_anywhere(c, flag) ==
    IF c = "Y" /\ flag = 0 THEN "years"
    ELSE IF c = "M" /\ flag < 2 THEN "months"
    ELSE IF c = "D" /\ flag < 4 THEN "days"
    ELSE IF c = "H" /\ flag < 16 THEN "hours"
    ELSE IF c = "M" /\ flag >= 8 /\ flag < 32 THEN "minutes"
    ELSE IF c = "S" /\ flag >= 8 /\ flag < 64 THEN "seconds"
    ELSE "none"

\* match c { 'Y' if flag == 0 => .., 'M' if flag < 2 => .., ..., _ => .. }: the
\* arm that the unit letter c and the flags select ("none": the _ arm).
UnitArmOf(c, flag) ==
    IF c = "Y" /\ flag = 0 THEN "years"
    ELSE IF c = "M" /\ flag < 2 THEN "months"
    ELSE IF c = "D" /\ flag < 4 THEN "days"
    ELSE IF c = "H" /\ flag >= 8 /\ flag < 16 THEN "hours"
    ELSE IF c = "M" /\ flag >= 8 /\ flag < 32 THEN "minutes"
    ELSE IF c = "S" /\ flag >= 8 /\ flag < 64 THEN "seconds"
    ELSE "none"

\* The seconds of the units with months of 31 days.
UnitFactors_month31(arm) ==
    CASE arm = "years"   -> <<365, 24, 60, 60>>
      [] arm = "months"  -> <<31, 24, 60, 60>>
      [] arm = "days"    -> <<24, 60, 60>>
      [] arm = "hours"   -> <<60, 60>>
      [] arm = "minutes" -> <<60>>

\* The seconds of one unit, as the factors the code multiplies by.
UnitFactors(arm) ==
    CASE arm = "years"   -> <<365, 24, 60, 60>>
      [] arm = "months"  -> <<30, 24, 60, 60>>
      [] arm = "days"    -> <<24, 60, 60>>
      [] arm = "hours"   -> <<60, 60>>
      [] arm = "minutes" -> <<60>>

\* The flag bit an arm sets.
UnitBit(arm) ==
    CASE arm = "years"   -> 1
      [] arm = "months"  -> 2
      [] arm = "days"    -> 4
      [] arm = "hours"   -> 16
      [] arm = "minutes" -> 32

UnitMatch(c, st, checks) ==
    LET arm == UnitArmOf(c, st.flag)
    IN  IF arm = "none" THEN Err("UnmatchedPattern")
        ELSE IF arm = "seconds" THEN SecondsArm(st)
        ELSE UnitArm(st, UnitFactors(arm), UnitBit(arm), checks)

\* if c.is_digit(10) || (c == '.' && !value.contains('.')): c is pushed.
Pushed(c, value) == IsDigit(c) \/ (c = "." /\ ~Contains(value, "."))

\* The turns of the loop that push a character, taken at once: the
\* position of the first character from position i on that is not pushed,
\* Len(s) + 1 when all are.
RunEnd(s, i, value) ==
    CHOOSE j \in i..(Len(s) + 1) :
        /\ \A k \in i..(j - 1) : Pushed(s[k], value \o SubSeq(s, i, k - 1))
        /\ j = Len(s) + 1 \/ ~Pushed(s[j], value \o SubSeq(s, i, j - 1))

\* One turn of while let Some(c) = chars.next() { .. } on a character that
\* is not pushed, the i-th: Ok(the state after it), or the error or panic
\* that ends the scan.
DurationStep(s, i, st, checks) ==
    IF s[i] = "T"
    THEN IF i < Len(s) THEN Ok([st EXCEPT !.flag = FlagOr(@, 8)])
         ELSE Err("UnmatchedPattern")
    ELSE IF st.value = <<>> THEN Err("UnmatchedPattern")
    ELSE UnitMatch(s[i], st, checks)

\* The loop from the i-th character on, then the final test of the flags;
\* DurationAfter is the loop after the turn on the j-th character, of outcome r.
RECURSIVE DurationScan(_, _, _, _)
RECURSIVE DurationAfter(_, _, _, _)
DurationAfter(s, j, r, checks) ==
    IF IsOk(r) THEN DurationScan(s, j + 1, r.v, checks) ELSE r

DurationScan(s, i, st, checks) ==
    LET j == RunEnd(s, i, st.value)
    IN  IF j > Len(s)
        THEN IF FlagWithoutT(st.flag) # 0 THEN Ok(st.duration) ELSE Err("UnmatchedPattern")
        ELSE DurationAfter(s, j, DurationStep(s, j, [st EXCEPT !.value = @ \o SubSeq(s, i, j - 1)],
                                              checks), checks)

\* Ok(Self { value: duration, is_negative }), or the error or panic of the
\* scan r.
XsDuration_of(r, is_negative) ==
    IF IsOk(r) THEN Ok(XsDuration(r.v, is_negative)) ELSE r

\* impl FromStr for XsDuration
XsDuration_from_str(s, checks) ==
    LET is_negative == s # <<>> /\ Head(s) = "-"
        rest        == IF is_negative THEN Tail(s) ELSE s
    IN  IF rest = <<>> \/ Head(rest) # "P" THEN Err("UnmatchedPattern")
        ELSE XsDuration_of(DurationScan(rest, 2, [duration |-> Duration(BigZero, BigZero),
                                                  flag |-> 0, value |-> <<>>], checks),
                           is_negative)

-----------------------------------------------------------------------------
(* The runs of the codecs: Init draws an input, the first action applies   *)
(* an operation to it, the second one applies an operation to its result.  *)
(* An outcome is Ok(v) (the value returned, or Result::Ok), Err(e)         *)
(* (Result::Err) or Panic(msg).                                            *)

NoCodecRun ==
    /\ arg = [kind |-> "none"]
    /\ op = "init"
    /\ out = None
    /\ op2 = "none"
    /\ out2 = None
    /\ overflow_checks = TRUE

NoBuilderRun ==
    /\ ent = "none"
    /\ builder = <<>>
    /\ built = None
    /\ results = <<>>

\* The first operation op_name gives outcome r.
First(op_name, r) ==
    /\ op = "init"
    /\ op' = op_name
    /\ out' = r
    /\ UNCHANGED <<arg, op2, out2, overflow_checks, ent, builder, built, results>>

\* The second operation op_name gives outcome r.
Second(op_name, r) ==
    /\ op2 = "none"
    /\ op2' = op_name
    /\ out2' = r
    /\ UNCHANGED <<arg, op, out, overflow_checks, ent, builder, built, results>>

-----------------------------------------------------------------------------
(* The runs of xs:duration.                                                *)

MaxDurHours == 2

MaxDurTokens == 2

\* The inputs: XsDuration values of h hours, m minutes, s seconds and some
\* nanoseconds, and of u64::MAX seconds; and the texts "P" or "-P" and then
\* up to MaxDurTokens tokens, a token being "T" or a digit run and a unit,
\* the digit runs being small ones, a fraction, the least one whose year
\* count overflows a u64 of seconds, and u64::MAX.
DurationInputs ==
    LET secs   == {BigFromInt(h * 3600 + m * 60 + s) :
                      h \in 0..MaxDurHours, m \in {0, 1, 59}, s \in {0, 1, 30, 59}}
                  \cup {U64_MAX}
        nanos  == {BigZero, <<5>>, <<5, 0, 0, 0, 0, 0, 0>>, <<5, 0, 0, 0, 0, 0, 0, 0, 0>>,
                   <<1, 0, 0, 0, 0, 0, 0, 0, 0>>, <<1, 2, 3, 4, 5, 6, 7, 8, 9>>,
                   <<9, 9, 9, 9, 9, 9, 9, 9, 9>>}
        runs   == {<<"1">>, <<"2", "0">>, <<"0", ".", "5">>,
                   UIntToString(<<5, 8, 4, 9, 4, 2, 4, 1, 7, 3, 5, 6>>),
                   UIntToString(U64_MAX)}
        tokens == {<<"T">>} \cup {run \o <<u>> : run \in runs, u \in {"Y", "M", "D", "H", "S"}}
    IN  {[kind |-> "XsDuration", v |-> XsDuration(Duration(x, n), neg)] :
            x \in secs, n \in nanos, neg \in BOOLEAN}
        \cup {[kind |-> "duration_text", s |-> prefix \o Concat(toks)] :
                prefix \in {<<"P">>, <<"-", "P">>}, toks \in SeqsUpTo(tokens, MaxDurTokens)}

MaxGrammarTokens == 3

\* A piece of a duration text: a digit run and a unit letter; "T" is the
\* piece of no digits and of the letter T, and a piece may lack its digits
\* or its letter.
DurationToken(run, unit) == [run |-> run, unit |-> unit]

\* The text of a sign and of pieces: "-" if negative, "P", and the pieces.
DurationText(neg, toks) ==
    (IF neg THEN <<"-", "P">> ELSE <<"P">>)
        \o Concat([i \in 1..Len(toks) |->
                      toks[i].run \o (IF toks[i].unit = "" THEN <<>> ELSE <<toks[i].unit>>)])

\* The duration texts of the tests (types.rs 1139-1181) that are made of
\* whole pieces, and four more of their kind.
DurationTests ==
    LET t(run, unit) == DurationToken(run, unit)
        T == t(<<>>, "T")
    IN  {<<t(<<"2">>, "Y"), t(<<"6">>, "M"), t(<<"5">>, "D"), T,
           t(<<"1", "2">>, "H"), t(<<"3", "5">>, "M"), t(<<"3", "0">>, "S")>>,
         <<t(<<"1">>, "D"), T, t(<<"2">>, "H")>>,
         <<t(<<"2", "0">>, "M")>>,
         <<T, t(<<"2", "0">>, "M")>>,
         <<t(<<"0">>, "Y"), t(<<"2", "0">>, "M"), t(<<"0">>, "D")>>,
         <<t(<<"0">>, "Y")>>,
         <<t(<<"6", "0">>, "D")>>,
         <<t(<<"2", "0">>, "M"), T>>,
         <<t(<<"1">>, "Y"), t(<<>>, "M"), t(<<"5">>, "D")>>,
         <<t(<<"1">>, "D"), t(<<"2">>, "H")>>,
         <<t(<<"2">>, "M"), t(<<"1">>, "Y")>>,
         <<T, t(<<"3", "0">>, "S")>>,
         <<T, t(<<"1">>, "M"), t(<<"3", "0">>, "S")>>,
         <<T, t(<<"1">>, "H"), t(<<"1">>, "S"), t(<<"2">>, "S")>>,
         <<t(<<"1">>, "Y"), T, t(<<"1">>, "H"), t(<<"1">>, "M"), t(<<"5">>, "")>>}

\* The duration texts by their pieces: up to MaxGrammarTokens pieces, each
\* "T", a unit with the digits "2", or the letter M without digits, and
\* then the digits "5" without a letter or nothing; and the texts of the
\* tests; each with and without the sign.
DurationTokenInputs ==
    LET units == {DurationToken(<<"2">>, u) : u \in {"Y", "M", "D", "H", "S"}}
        whole == units \cup {DurationToken(<<>>, "T"), DurationToken(<<>>, "M")}
        tails == {<<>>, <<DurationToken(<<"5">>, "")>>}
        lists == {toks \o tail : toks \in SeqsUpTo(whole, MaxGrammarTokens - 1), tail \in tails}
                 \cup SeqsUpTo(whole, MaxGrammarTokens) \cup DurationTests
    IN  {[kind |-> "duration_tokens", neg |-> neg, toks |-> toks,
          s |-> DurationText(neg, toks)] : neg \in BOOLEAN, toks \in lists}

InitDuration ==
    /\ arg \in DurationInputs \cup DurationTokenInputs
    /\ op = "init"
    /\ out = None
    /\ op2 = "none"
    /\ out2 = None
    /\ overflow_checks \in BOOLEAN
    /\ NoBuilderRun

\* v.to_string()
XsDurationToString ==
    /\ arg.kind = "XsDuration"
    /\ First("XsDuration::to_string", Ok(XsDuration_to_string(arg.v)))

\* XsDuration::from_str(&v.to_string())
XsDurationReparse ==
    /\ op = "XsDuration::to_string"
    /\ Second("XsDuration::from_str", XsDuration_from_str(out.v, overflow_checks))

\* XsDuration::from_str(s)
XsDurationFromStr ==
    /\ arg.kind \in {"duration_text", "duration_tokens"}
    /\ First("XsDuration::from_str", XsDuration_from_str(arg.s, overflow_checks))

\* XsDuration::from_str(s)?.to_string()
XsDurationFormat ==
    /\ op = "XsDuration::from_str"
    /\ IsOk(out)
    /\ Second("XsDuration::to_string", Ok(XsDuration_to_string(out.v)))

NextDuration ==
    \/ XsDurationToString
    \/ XsDurationReparse
    \/ XsDurationFromStr
    \/ XsDurationFormat

SpecDuration == InitDuration /\ [][NextDuration]_vars

-----------------------------------------------------------------------------
(* Ratio { horizontal: u32, vertical: u32 }                                *)

Ratio(horizontal, vertical) == [horizontal |-> horizontal, vertical |-> vertical]

\* write!(f, "{}:{}", self.horizontal, self.vertical)
Ratio_to_string(r) == UIntToString(r.horizontal) \o <<":">> \o UIntToString(r.vertical)

\* impl FromStr for Ratio: the two parsed numbers are stored as they are.
Ratio_from_str(s) ==
    LET parts == Split(s, ":")
    IN  IF Len(parts) = 2
        THEN LET horizontal == ParseU32(parts[1])
                 vertical   == ParseU32(parts[2])
             IN  IF IsErr(horizontal) THEN horizontal
                 ELSE IF IsErr(vertical) THEN vertical
                 ELSE Ok(Ratio(horizontal.v, vertical.v))
        ELSE Err("UnmatchedPattern")

\* impl From<(u32, u32)> for Ratio: both numbers divided by their gcd; the
\* division of a u32 by zero panics in every build.
Ratio_from(numer, denom) ==
    LET divisor == BigGcd(numer, denom)
    IN  IF BigIsZero(divisor) THEN Panic("attempt to divide by zero")
        ELSE Ok(Ratio(BigDiv(numer, divisor), BigDiv(denom, divisor)))

-----------------------------------------------------------------------------
(* FrameRate { value: num_rational::Ratio<u32> }                           *)

\* num_rational::Ratio::new(numer, denom), denom # 0: the reduced fraction.
Rational_new(numer, denom) ==
    LET g == BigGcd(numer, denom)
    IN  [numer |-> BigDiv(numer, g), denom |-> BigDiv(denom, g)]

FrameRate(value) == [value |-> value]

\* #[derive(Default)]: num_rational's Ratio::default() is zero, 0/1.
FrameRate_default == FrameRate([numer |-> BigZero, denom |-> <<1>>])

\* write!(f, "{}/{}", self.value.numer(), self.value.denom())
FrameRate_to_string(r) ==
    UIntToString(r.value.numer) \o <<"/">> \o UIntToString(r.value.denom)

\* A denominator taken as 0 when the text has none.
FrameRate_denom_zero(parts) ==
    IF Len(parts) = 2 THEN ParseU32(parts[2]) ELSE Ok(BigZero)

\* let denom = if parts.len() == 2 { parts[1].parse::<u32>()? } else { 1 };
FrameRate_denom(parts) ==
    IF Len(parts) = 2 THEN ParseU32(parts[2]) ELSE Ok(<<1>>)

\* impl FromStr for FrameRate
FrameRate_from_str(s) ==
    LET parts == Split(s, "/")
    IN  IF Len(parts) = 0 \/ Len(parts) > 2 THEN Err("UnmatchedPattern")
        ELSE LET numer == ParseU32(parts[1])
                 denom == FrameRate_denom(parts)
             IN  IF IsErr(numer) THEN numer
                 ELSE IF IsErr(denom) THEN denom
                 ELSE IF BigIsZero(denom.v)
                 THEN Err("InvalidData: Don't set ZERO to the framerate denom")
                 ELSE Ok(FrameRate(Rational_new(numer.v, denom.v)))

-----------------------------------------------------------------------------
(* SingleByteRange { first: u32, last: Option<u32> }                       *)

SingleByteRange(first, last) == [first |-> first, last |-> last]

\* #[derive(Default)]
SingleByteRange_default == SingleByteRange(BigZero, None)

\* write!(f, "{}-{}", first, last), last being "" when there is none.
SingleByteRange_to_string(r) ==
    UIntToString(r.first) \o <<"-">>
        \o (IF IsSome(r.last) THEN UIntToString(r.last.v) ELSE <<>>)

\* A parse that reads an empty first part as no start bound, the byte 0.
SingleByteRange_from_str_no_start(s) ==
    LET parts == Split(s, "-")
    IN  IF Len(parts) # 2 THEN Err("UnmatchedPattern")
        ELSE LET first  == IF parts[1] = <<>> THEN Ok(BigZero) ELSE ParseU32(parts[1])
                 parsed == ParseU32(parts[2])
                 last   == IF parts[2] # <<>>
                           THEN IF IsOk(parsed) THEN Ok(Some(parsed.v)) ELSE parsed
                           ELSE Ok(None)
             IN  IF IsErr(first) THEN first
                 ELSE IF IsErr(last) THEN last
                 ELSE IF IsSome(last.v) /\ BigLess(last.v.v, first.v)
                 THEN Err("UnmatchedPattern")
                 ELSE Ok(SingleByteRange(first.v, last.v))

\* impl FromStr for SingleByteRange
SingleByteRange_from_str(s) ==
    LET parts == Split(s, "-")
    IN  IF Len(parts) # 2 THEN Err("UnmatchedPattern")
        ELSE LET first  == ParseU32(parts[1])
                 parsed == ParseU32(parts[2])
                 last   == IF parts[2] # <<>>
                           THEN IF IsOk(parsed) THEN Ok(Some(parsed.v)) ELSE parsed
                           ELSE Ok(None)
             IN  IF IsErr(first) THEN first
                 ELSE IF IsErr(last) THEN last
                 ELSE IF IsSome(last.v) /\ BigLess(last.v.v, first.v)
                 THEN Err("UnmatchedPattern")
                 ELSE Ok(SingleByteRange(first.v, last.v))

\* impl From<u32> for SingleByteRange
SingleByteRange_from(value) == SingleByteRange(value, None)

\* A range from a pair taken in whatever order it comes.
SingleByteRange_try_from_unordered(v0, v1) == Ok(SingleByteRange(v0, Some(v1)))

\* impl TryFrom<(u32, u32)> for SingleByteRange
SingleByteRange_try_from(v0, v1) ==
    IF BigLess(v1, v0) THEN Err("UnmatchedPattern")
    ELSE Ok(SingleByteRange(v0, Some(v1)))

-----------------------------------------------------------------------------
(* FourCC { value: [u8; 4] }: the bytes are numbers in 0..255.             *)

FourCC(value) == [value |-> value]

\* u32::to_be_bytes: the n bytes of number, most significant first.
RECURSIVE ToBeBytes(_, _)
ToBeBytes(number, n) ==
    LET by256 == DivSmall(number, 256)
    IN  IF n = 0 THEN <<>>
        ELSE Append(ToBeBytes(by256.q, n - 1), by256.r)

\* impl From<u32> for FourCC
FourCC_from_u32(number) == FourCC(ToBeBytes(number, 4))

\* impl From<[u8; 4]> for FourCC
FourCC_from_bytes(value) == FourCC(value)

\* impl FromStr for FourCC, on the UTF-8 bytes of s: exactly four of them.
FourCC_from_str(bytes) ==
    IF Len(bytes) = 4 THEN Ok(FourCC(bytes)) ELSE Err("UnmatchedPattern")

\* A UTF-8 continuation byte, 10xxxxxx.
IsCont(b) == b >= 128 /\ b <= 191

\* The length of the UTF-8 sequence a first byte announces; 0 for a byte
\* that starts none (a continuation byte, 0xC0, 0xC1, 0xF5..0xFF).
Utf8Width(b) ==
    IF b <= 127 THEN 1
    ELSE IF b >= 194 /\ b <= 223 THEN 2
    ELSE IF b >= 224 /\ b <= 239 THEN 3
    ELSE IF b >= 240 /\ b <= 244 THEN 4
    ELSE 0

\* The second byte a first byte allows: no overlong forms, no surrogates,
\* nothing above U+10FFFF.
SecondOk(b1, b2) ==
    CASE b1 = 224 -> b2 >= 160 /\ b2 <= 191
      [] b1 = 237 -> b2 >= 128 /\ b2 <= 159
      [] b1 = 240 -> b2 >= 144 /\ b2 <= 191
      [] b1 = 244 -> b2 >= 128 /\ b2 <= 143
      [] OTHER    -> IsCont(b2)

\* The bytes of v from position i that make the longest prefix of a valid
\* sequence: [ok |-> whether it is a whole sequence, len |-> its length].
Utf8Chunk(v, i) ==
    LET w == Utf8Width(v[i])
        has(k) == i + k <= Len(v)
    IN  IF w = 0 THEN [ok |-> FALSE, len |-> 1]
        ELSE IF w = 1 THEN [ok |-> TRUE, len |-> 1]
        ELSE IF ~has(1) \/ ~SecondOk(v[i], v[i + 1]) THEN [ok |-> FALSE, len |-> 1]
        ELSE IF w = 2 THEN [ok |-> TRUE, len |-> 2]
        ELSE IF ~has(2) \/ ~IsCont(v[i + 2]) THEN [ok |-> FALSE, len |-> 2]
        ELSE IF w = 3 THEN [ok |-> TRUE, len |-> 3]
        ELSE IF ~has(3) \/ ~IsCont(v[i + 3]) THEN [ok |-> FALSE, len |-> 3]
        ELSE [ok |-> TRUE, len |-> 4]

\* std::str::from_utf8(v).is_ok(), from position i on.
RECURSIVE Utf8Valid(_, _)
Utf8Valid(v, i) ==
    IF i > Len(v) THEN TRUE
    ELSE LET c == Utf8Chunk(v, i)
         IN  c.ok /\ Utf8Valid(v, i + c.len)

\* impl Deref for FourCC: std::str::from_utf8(&self.value).unwrap()
FourCC_deref(f) ==
    IF Utf8Valid(f.value, 1) THEN Ok(f.value)
    ELSE Panic("called Result::unwrap() on an Err value: Utf8Error")

\* String::from_utf8_lossy(v), from position i on: every longest invalid
\* run of bytes becomes one U+FFFD, the bytes <<239, 191, 189>>.
RECURSIVE FromUtf8Lossy(_, _)
FromUtf8Lossy(v, i) ==
    IF i > Len(v) THEN <<>>
    ELSE LET c == Utf8Chunk(v, i)
         IN  (IF c.ok THEN SubSeq(v, i, i + c.len - 1) ELSE <<239, 191, 189>>)
                 \o FromUtf8Lossy(v, i + c.len)

\* impl fmt::Display for FourCC
FourCC_to_string(f) == FromUtf8Lossy(f.value, 1)

-----------------------------------------------------------------------------
(* The runs of Ratio, FrameRate, SingleByteRange and FourCC.               *)

MaxSmallU32 == 4

\* u32 values: the small ones, the numbers of the tests, and u32::MAX.
ScalarU32 ==
    {BigFromInt(n) : n \in 0..MaxSmallU32}
    \cup {BigFromInt(n) : n \in {9, 16, 30, 499, 500, 1001, 1080, 1920, 30000}}
    \cup {U32_MAX}

\* The inputs: texts "a<sep>b", "a<sep>", "<sep>b", "a", "+a<sep>a" and
\* "1<sep>2<sep>3" over the numbers and the separators ':', '/' and '-',
\* and such texts with a part that is no number of a u32; pairs of numbers;
\* numbers, those of the four-character codes "avc1", 0x80000000 and
\* 0xC3A96162 too; arrays of four bytes (ASCII, a continuation byte, first
\* bytes of sequences of two, three and four bytes, and a byte that no
\* UTF-8 text holds); the UTF-8 bytes of the texts "", "ab", "avc1", "aéb"
\* and "avc1x"; and nothing, for Default.
ScalarInputs ==
    LET pairs   == ScalarU32 \X ScalarU32
        notU32  == {<<>>, <<"a">>, <<"-", "1">>, <<"+">>, <<"1", " ">>,
                    UIntToString(<<4, 2, 9, 4, 9, 6, 7, 2, 9, 6>>)}
        texts(sep) ==
            {UIntToString(p[1]) \o <<sep>> \o UIntToString(p[2]) : p \in pairs}
            \cup {UIntToString(n) \o <<sep>> : n \in ScalarU32}
            \cup {<<sep>> \o UIntToString(n) : n \in ScalarU32}
            \cup {UIntToString(n) : n \in ScalarU32}
            \cup {<<"+">> \o UIntToString(n) \o <<sep>> \o UIntToString(n) : n \in ScalarU32}
            \cup {<<"1", sep, "2", sep, "3">>}
            \cup {t \o <<sep, "1">> : t \in notU32}
            \cup {<<"1", sep>> \o t : t \in notU32}
            \cup notU32
        codes   == {<<1, 6, 3, 5, 1, 4, 8, 5, 9, 3>>, <<2, 1, 4, 7, 4, 8, 3, 6, 4, 8>>,
                    <<3, 2, 8, 2, 6, 4, 2, 7, 8, 6>>}
        bytes   == {97, 128, 195, 226, 240, 255}
        strs    == {<<>>, <<97, 98>>, <<97, 118, 99, 49>>, <<97, 195, 169, 98>>,
                    <<97, 118, 99, 49, 120>>}
    IN  {[kind |-> "text", s |-> s] : s \in texts(":") \cup texts("/") \cup texts("-")}
        \cup {[kind |-> "pair", a |-> p[1], b |-> p[2]] : p \in pairs}
        \cup {[kind |-> "u32", n |-> n] : n \in ScalarU32 \cup codes}
        \cup {[kind |-> "bytes", v |-> <<b1, b2, b3, b4>>] :
                b1 \in bytes, b2 \in bytes, b3 \in bytes, b4 \in bytes}
        \cup {[kind |-> "str", bytes |-> t] : t \in strs}
        \cup {[kind |-> "unit"]}

InitScalar ==
    /\ arg \in ScalarInputs
    /\ op = "init"
    /\ out = None
    /\ op2 = "none"
    /\ out2 = None
    /\ overflow_checks \in BOOLEAN
    /\ NoBuilderRun

\* Ratio::from_str(s)
RatioFromStr ==
    /\ arg.kind = "text"
    /\ First("Ratio::from_str", Ratio_from_str(arg.s))

\* Ratio::from((a, b))
RatioFrom ==
    /\ arg.kind = "pair"
    /\ First("Ratio::from", Ratio_from(arg.a, arg.b))

\* Ratio::from_str("a:b"), next to Ratio::from((a, b))
RatioFromStrOfPair ==
    /\ op = "Ratio::from"
    /\ Second("Ratio::from_str",
              Ratio_from_str(UIntToString(arg.a) \o <<":">> \o UIntToString(arg.b)))

\* r.to_string() of a Ratio
RatioToString ==
    /\ op = "Ratio::from_str"
    /\ IsOk(out)
    /\ Second("Ratio::to_string", Ok(Ratio_to_string(out.v)))

\* FrameRate::from_str(s)
FrameRateFromStr ==
    /\ arg.kind = "text"
    /\ First("FrameRate::from_str", FrameRate_from_str(arg.s))

\* FrameRate::default()
FrameRateDefault ==
    /\ arg.kind = "unit"
    /\ First("FrameRate::default", Ok(FrameRate_default))

\* r.to_string() of a FrameRate
FrameRateToString ==
    /\ op \in {"FrameRate::from_str", "FrameRate::default"}
    /\ IsOk(out)
    /\ Second("FrameRate::to_string", Ok(FrameRate_to_string(out.v)))

\* SingleByteRange::from_str(s)
SingleByteRangeFromStr ==
    /\ arg.kind = "text"
    /\ First("SingleByteRange::from_str", SingleByteRange_from_str(arg.s))

\* SingleByteRange::from(n)
SingleByteRangeFrom ==
    /\ arg.kind = "u32"
    /\ First("SingleByteRange::from", Ok(SingleByteRange_from(arg.n)))

\* SingleByteRange::try_from((a, b))
SingleByteRangeTryFrom ==
    /\ arg.kind = "pair"
    /\ First("SingleByteRange::try_from", SingleByteRange_try_from(arg.a, arg.b))

\* SingleByteRange::default()
SingleByteRangeDefault ==
    /\ arg.kind = "unit"
    /\ First("SingleByteRange::default", Ok(SingleByteRange_default))

SingleByteRangeOps ==
    {"SingleByteRange::from_str", "SingleByteRange::from",
     "SingleByteRange::try_from", "SingleByteRange::default"}

\* r.to_string() of a SingleByteRange
SingleByteRangeToString ==
    /\ op \in SingleByteRangeOps
    /\ IsOk(out)
    /\ Second("SingleByteRange::to_string", Ok(SingleByteRange_to_string(out.v)))

\* FourCC::from(number)
FourCCFromU32 ==
    /\ arg.kind = "u32"
    /\ First("FourCC::from_u32", Ok(FourCC_from_u32(arg.n)))

\* FourCC::from(bytes)
FourCCFromBytes ==
    /\ arg.kind = "bytes"
    /\ First("FourCC::from_bytes", Ok(FourCC_from_bytes(arg.v)))

\* FourCC::from_str(s)
FourCCFromStr ==
    /\ arg.kind = "str"
    /\ First("FourCC::from_str", FourCC_from_str(arg.bytes))

\* &*fourcc
FourCCDeref ==
    /\ op \in {"FourCC::from_u32", "FourCC::from_bytes", "FourCC::from_str"}
    /\ IsOk(out)
    /\ Second("FourCC::deref", FourCC_deref(out.v))

\* fourcc.to_string()
FourCCToString ==
    /\ op \in {"FourCC::from_u32", "FourCC::from_bytes", "FourCC::from_str"}
    /\ IsOk(out)
    /\ Second("FourCC::to_string", Ok(FourCC_to_string(out.v)))

NextScalar ==
    \/ RatioFromStr
    \/ RatioFrom
    \/ RatioFromStrOfPair
    \/ RatioToString
    \/ FrameRateFromStr
    \/ FrameRateDefault
    \/ FrameRateToString
    \/ SingleByteRangeFromStr
    \/ SingleByteRangeFrom
    \/ SingleByteRangeTryFrom
    \/ SingleByteRangeDefault
    \/ SingleByteRangeToString
    \/ FourCCFromU32
    \/ FourCCFromBytes
    \/ FourCCFromStr
    \/ FourCCDeref
    \/ FourCCToString

SpecScalar == InitScalar /\ [][NextScalar]_vars

-----------------------------------------------------------------------------
(* The codecs parameter of RFC 6381: FancyList, SimpList, Codecs.          *)

\* [a-zA-Z]
Letters ==
    {"a", "b", "c", "d", "e", "f", "g", "h", "i", "j", "k", "l", "m",
     "n", "o", "p", "q", "r", "s", "t", "u", "v", "w", "x", "y", "z",
     "A", "B", "C", "D", "E", "F", "G", "H", "I", "J", "K", "L", "M",
     "N", "O", "P", "Q", "R", "S", "T", "U", "V", "W", "X", "Y", "Z"}

\* [a-zA-Z0-9]
Alnum == Letters \cup {DigitChars[i] : i \in 1..10}

\* CHARSET and ID_SIMPLE, [A-Za-z0-9\-]+ : the characters of the class.
ID_SIMPLE == Alnum \cup {"-"}

\* ID_ENCODED, [A-Za-z0-9.\-]+ : the characters of the class.
ID_ENCODED == Alnum \cup {".", "-"}

\* s without the white space (\s) it starts with.
RECURSIVE SkipSpace(_)
SkipSpace(s) ==
    IF s # <<>> /\ Head(s) \in {" ", "\t", "\n", "\r"} THEN SkipSpace(Tail(s)) ELSE s

\* s is one character or more, all of the class.
AllOf(s, class) == s # <<>> /\ \A i \in 1..Len(s) : s[i] \in class

\* id(?:,\s*id)* : the pieces between the commas are ids, white space
\* allowed only at the start of the second piece and of the later ones.
MatchIdList(s, class) ==
    LET parts == Split(s, ",")
    IN  /\ AllOf(parts[1], class)
        /\ \A i \in 2..Len(parts) : AllOf(SkipSpace(parts[i]), class)

\* LANGUAGE, [a-zA-Z]{1,8}(-[a-zA-Z0-9]{1,8})*
LANGUAGE(s) ==
    LET parts == Split(s, "-")
    IN  /\ AllOf(parts[1], Letters) /\ Len(parts[1]) <= 8
        /\ \A i \in 2..Len(parts) : AllOf(parts[i], Alnum) /\ Len(parts[i]) <= 8

\* PATTERN_FANCY.captures(s): None, or Some of the three named groups.
\* No class holds the quote, so the quotes of s are those of the pattern.
PATTERN_FANCY(s) ==
    LET parts == Split(s, "'")
    IN  IF Len(parts) = 1
        THEN IF MatchIdList(s, ID_ENCODED)
             THEN Some([charset |-> None, language |-> None, codecs |-> s])
             ELSE None
        ELSE IF /\ Len(parts) = 3
                /\ AllOf(parts[1], ID_SIMPLE)
                /\ LANGUAGE(parts[2])
                /\ MatchIdList(parts[3], ID_ENCODED)
        THEN Some([charset |-> Some(parts[1]), language |-> Some(parts[2]),
                   codecs |-> parts[3]])
        ELSE None

\* PATTERN_SIMPLE.is_match(s)
PATTERN_SIMPLE(s) == MatchIdList(s, ID_SIMPLE)

FancyList(charset, language, codecs) ==
    [charset |-> charset, language |-> language, codecs |-> codecs]

\* impl FromStr for FancyList
FancyList_from_str(s) ==
    LET caps == PATTERN_FANCY(s)
    IN  IF IsNone(caps) THEN Err("UnmatchedPattern")
        ELSE Ok(FancyList(caps.v.charset, caps.v.language, Split(caps.v.codecs, ",")))

\* impl fmt::Display for FancyList
FancyList_to_string(l) ==
    LET charset == IF IsSome(l.charset) THEN l.charset.v ELSE <<>>
    IN  IF IsSome(l.language)
        THEN charset \o <<"'">> \o l.language.v \o <<"'">> \o Join(l.codecs, ",")
        ELSE charset \o Join(l.codecs, ",")

SimpList(codecs) == [codecs |-> codecs]

\* impl FromStr for SimpList
SimpList_from_str(s) ==
    IF ~PATTERN_SIMPLE(s) THEN Err("UnmatchedPattern")
    ELSE Ok(SimpList(Split(s, ",")))

\* impl fmt::Display for SimpList
SimpList_to_string(l) == Join(l.codecs, ",")

\* enum Codecs { Fancy(FancyList), Simp(SimpList) }
Codecs(variant, list) == [variant |-> variant, list |-> list]

\* The fancy grammar chosen by the quote alone.
Codecs_from_str_by_quote(s) ==
    LET fancy == FancyList_from_str(s)
        simp  == SimpList_from_str(s)
    IN  IF Contains(s, "'")
        THEN IF IsOk(fancy) THEN Ok(Codecs("Fancy", fancy.v)) ELSE fancy
        ELSE IF IsOk(simp) THEN Ok(Codecs("Simp", simp.v)) ELSE simp

\* impl FromStr for Codecs
Codecs_from_str(s) ==
    LET fancy == FancyList_from_str(s)
        simp  == SimpList_from_str(s)
    IN  IF Contains(s, "'") \/ Contains(s, ".")
        THEN IF IsOk(fancy) THEN Ok(Codecs("Fancy", fancy.v)) ELSE fancy
        ELSE IF IsOk(simp) THEN Ok(Codecs("Simp", simp.v)) ELSE simp

\* impl fmt::Display for Codecs
Codecs_to_string(c) ==
    IF c.variant = "Fancy" THEN FancyList_to_string(c.list)
    ELSE SimpList_to_string(c.list)

-----------------------------------------------------------------------------
(* The runs of the codecs parameter.                                       *)

MaxCodecsLen == 5

\* The inputs: the texts of up to MaxCodecsLen characters over an id
\* character, a digit, the dot, the quote, the comma, the semicolon and the
\* space, and texts of the tests.
CodecsTexts ==
    SeqsUpTo({"a", "1", ".", "'", ",", ";", " "}, MaxCodecsLen)
    \cup
    {<<"U", "T", "F", "-", "8", "'", "e", "n", "'", "a", "v", "c", "1", ".", "4", "2",
       "E", "0", "1", "E", ",", "m", "p", "4", "a", ".", "4", "0", ".", "2">>,
     <<"U", "T", "F", "-", "8", "'", "e", "n", "'", "a", "v", "c", "1", ".", "4", "2",
       "E", "0", "1", "E", ",", " ", "m", "p", "4", "a", ".", "4", "0", ".", "2">>,
     <<"a", "v", "c", "1", ".", "4", "d", "0", "0", "2", "8", ",",
       "m", "p", "4", "a", ".", "4", "0", ".", "2">>,
     <<"a", "v", "c", "1", ".", "4", "d", "0", "0", "2", "8", ";",
       "m", "p", "4", "a", ".", "4", "0", ".", "2">>,
     <<"a", "v", "c", "1", ",", "m", "p", "4", "a">>,
     <<"a", "v", "c", "1", ",", " ", "m", "p", "4", "a">>,
     <<"a", "v", "c", "1", ";", "m", "p", "4", "a">>,
     <<"U", "T", "F", "-", "8", "'", "e", "n", "'">>,
     <<"U", "T", "F", "-", "8", "'", "e", "n", "-", "U", "S", "'", "a", "v", "c", "1">>,
     <<"U", "T", "F", "-", "8", "\"", "e", "n", "\"", "a", "v", "c", "1">>,
     <<"a", "'", "l", "a", "n", "g", "u", "a", "g", "e", "s", "'", "a">>}

InitCodecs ==
    /\ arg \in {[kind |-> "text", s |-> s] : s \in CodecsTexts}
    /\ op = "init"
    /\ out = None
    /\ op2 = "none"
    /\ out2 = None
    /\ overflow_checks = TRUE
    /\ NoBuilderRun

\* FancyList::from_str(s)
FancyListFromStr ==
    /\ arg.kind = "text"
    /\ First("FancyList::from_str", FancyList_from_str(arg.s))

\* SimpList::from_str(s)
SimpListFromStr ==
    /\ arg.kind = "text"
    /\ First("SimpList::from_str", SimpList_from_str(arg.s))

\* Codecs::from_str(s)
CodecsFromStr ==
    /\ arg.kind = "text"
    /\ First("Codecs::from_str", Codecs_from_str(arg.s))

\* l.to_string() of a FancyList
FancyListToString ==
    /\ op = "FancyList::from_str"
    /\ IsOk(out)
    /\ Second("FancyList::to_string", Ok(FancyList_to_string(out.v)))

\* l.to_string() of a SimpList
SimpListToString ==
    /\ op = "SimpList::from_str"
    /\ IsOk(out)
    /\ Second("SimpList::to_string", Ok(SimpList_to_string(out.v)))

\* c.to_string() of a Codecs
CodecsToString ==
    /\ op = "Codecs::from_str"
    /\ IsOk(out)
    /\ Second("Codecs::to_string", Ok(Codecs_to_string(out.v)))

NextCodecs ==
    \/ FancyListFromStr
    \/ SimpListFromStr
    \/ CodecsFromStr
    \/ FancyListToString
    \/ SimpListToString
    \/ CodecsToString

SpecCodecs == InitCodecs /\ [][NextCodecs]_vars

-----------------------------------------------------------------------------
(* The builders of derive_builder, #[builder(setter(into, strip_option),   *)
(* default, build_fn(validate = "Self::validate"))]: a builder holds an    *)
(* Option of every field, a setter puts Some(value) in one of them (for a  *)
(* field of an Option type, Some(Some(value))), and build() runs validate  *)
(* and then takes each field, or its default when it was not set.          *)

MaxVecLen == 2

\* Vectors of up to MaxVecLen elements, all the element x.
Vecs(x) == {[i \in 1..n |-> x] : n \in 0..MaxVecLen}

\* A field of a struct: its name, whether its type is an Option, the value
\* of Default for it, and the values the runs set it to.
Field(name, optional, default, values) ==
    [name |-> name, optional |-> optional, default |-> default, values |-> values]

\* struct ProducerReferenceTime
ProducerReferenceTime ==
    <<Field("id", FALSE, 0, {1}),
      Field("inband", TRUE, None, {TRUE}),
      Field("type", TRUE, None, {"Encoder", "Captured", "Application"}),
      Field("application_scheme", TRUE, None, {"https://example.com"}),
      Field("wall_clock_time", FALSE, "", {"12345"}),
      Field("presentation_time", FALSE, 0, {1})>>

\* definition.rs: the namespace, the schema file and the schema instance.
MPD_NAMESPACE == "urn:mpeg:dash:schema:mpd:2011"

MPD_SCHEMA_FILE == "DASH-MPD.xsd"

MPD_SCHEMA_INSTANCE == "http://www.w3.org/2001/XMLSchema-instance"

\* A struct MPD whose fields all have the default of #[derive(Default)].
MPD_derive_default ==
    <<Field("xmlns", TRUE, None, {"urn:example:mpd"}),
      Field("xmlns_xsi", TRUE, None, {"urn:example:xsi"}),
      Field("xsi_schema_location", TRUE, None, {<<"urn:example:mpd", "example.xsd">>}),
      Field("id", TRUE, None, {"mpd"}),
      Field("profiles", FALSE, <<>>, Vecs("Full")),
      Field("type", TRUE, None, {"Static", "Dynamic"}),
      Field("availability_start_time", TRUE, None, {"2024-01-01T00:00:00Z"}),
      Field("publish_time", TRUE, None, {"2024-01-01T00:00:00Z"}),
      Field("period", FALSE, <<>>, Vecs("Period"))>>

\* struct MPD: the fields with a #[builder(default = ..)] of their own, the
\* fields validate reads, and two more.
MPD ==
    <<Field("xmlns", TRUE, Some(MPD_NAMESPACE), {"urn:example:mpd"}),
      Field("xmlns_xsi", TRUE, Some(MPD_SCHEMA_INSTANCE), {"urn:example:xsi"}),
      Field("xsi_schema_location", TRUE, Some(<<MPD_NAMESPACE, MPD_SCHEMA_FILE>>),
            {<<"urn:example:mpd", "example.xsd">>}),
      Field("id", TRUE, None, {"mpd"}),
      Field("profiles", FALSE, <<>>, Vecs("Full")),
      Field("type", TRUE, None, {"Static", "Dynamic"}),
      Field("availability_start_time", TRUE, None, {"2024-01-01T00:00:00Z"}),
      Field("publish_time", TRUE, None, {"2024-01-01T00:00:00Z"}),
      Field("period", FALSE, <<>>, Vecs("Period"))>>

\* struct Metrics
Metrics ==
    <<Field("metrics", FALSE, "", {"metric_key1,metric_key2"}),
      Field("range", TRUE, None, Vecs("MetricsRange")),
      Field("reporting", FALSE, <<>>, Vecs("Descriptor"))>>

\* struct FailoverContent
FailoverContent ==
    <<Field("valid", TRUE, None, BOOLEAN),
      Field("fcs_list", FALSE, <<>>, Vecs("Fcs"))>>

\* struct ContentPopularityRate
ContentPopularityRate ==
    <<Field("source", FALSE, "Content", {"Content", "Statistics", "Other"}),
      Field("source_description", TRUE, None, {"description"}),
      Field("popularity_rates", FALSE, <<>>, Vecs("PopularityRate"))>>

\* struct PopularityRate
PopularityRate ==
    <<Field("popularity_rate", FALSE, 0, {0, 1, 50, 100, 101}),
      Field("start", TRUE, None, {0}),
      Field("repeat_count", TRUE, None, {-1, 2})>>

\* struct Segment
Segment ==
    <<Field("start_time", TRUE, None, {0}),
      Field("duration", FALSE, 0, {0, 1, 5}),
      Field("repeat_count", TRUE, None, {10})>>

\* struct SegmentTimeline: segments has #[builder(setter(custom))], so no
\* setter is derived for it.
SegmentTimeline == <<Field("segments", FALSE, <<>>, {})>>

\* The structs with a builder, by name: those above and, with the fields
\* validate reads and one or two more, UIntVWithID, LeapSecondInformation,
\* Descriptor, EventStream, Switching, RandomAccess, ModelPair,
\* ServiceDescription, Subset, Preselection, Fcs, Representation, Period
\* and AdaptationSet; the last three with the fields of the three
\* segment-addressing schemes.
Entities ==
    [ProducerReferenceTime |-> ProducerReferenceTime, MPD |-> MPD, Metrics |-> Metrics,
     FailoverContent |-> FailoverContent, ContentPopularityRate |-> ContentPopularityRate,
     PopularityRate |-> PopularityRate, Segment |-> Segment,
     SegmentTimeline |-> SegmentTimeline,
     UIntVWithID |->
        <<Field("base", FALSE, <<>>, {<<1, 2>>}),
          Field("id", FALSE, 0, {0, 1}),
          Field("content_type", TRUE, None, {"Video"})>>,
     LeapSecondInformation |->
        <<Field("availability_start_leap_offset", FALSE, 0, {0, 1}),
          Field("next_availability_start_leap_offset", TRUE, None, {2}),
          Field("next_leap_change_time", TRUE, None, {"2024-01-01T00:00:00Z"})>>,
     Descriptor |->
        <<Field("scheme_id_uri", FALSE, "", {"", "https://example.com"}),
          Field("value", TRUE, None, {"value"}),
          Field("id", TRUE, None, {"id"})>>,
     EventStream |->
        <<Field("href", TRUE, None, {"https://example.com/events"}),
          Field("scheme_id_uri", FALSE, "", {"", "https://example.com"}),
          Field("value", TRUE, None, {"value"}),
          Field("timescale", TRUE, None, {1000})>>,
     Switching |->
        <<Field("interval", FALSE, 0, {0, 1}),
          Field("type", TRUE, None, {"Media", "Bitstream"})>>,
     RandomAccess |->
        <<Field("interval", FALSE, 0, {0, 1}),
          Field("type", TRUE, None, {"Closed", "Open", "Gradual"}),
          Field("bandwidth", TRUE, None, {1})>>,
     ModelPair |->
        <<Field("buffer_time", FALSE, "PT", {"PT", "PT1S"}),
          Field("bandwidth", FALSE, 0, {0, 1})>>,
     ServiceDescription |->
        <<Field("id", FALSE, 0, {0, 1}),
          Field("scope", TRUE, None, Vecs("Descriptor")),
          Field("latency", TRUE, None, Vecs("Latency"))>>,
     Subset |->
        <<Field("contains", FALSE, <<>>, {<<>>, <<1, 2>>}),
          Field("id", TRUE, None, {"id"})>>,
     Preselection |->
        <<Field("id", TRUE, None, {"1"}),
          Field("preselection_components", FALSE, <<>>, {<<>>, <<"1", "2">>}),
          Field("lang", TRUE, None, {"en"})>>,
     Fcs |->
        <<Field("start_time", FALSE, 0, {0, 1}),
          Field("duration", TRUE, None, {1})>>,
     Representation |->
        <<Field("id", FALSE, "", {"", "video1"}),
          Field("bandwidth", FALSE, 0, {0, 1}),
          Field("quality_ranking", TRUE, None, {1}),
          Field("segment_base", TRUE, None, {"SegmentBase"}),
          Field("segment_list", TRUE, None, {"SegmentList"}),
          Field("segment_template", TRUE, None, {"SegmentTemplate"})>>,
     Period |->
        <<Field("id", TRUE, None, {1}),
          Field("segment_base", TRUE, None, {"SegmentBase"}),
          Field("segment_list", TRUE, None, {"SegmentList"}),
          Field("segment_template", TRUE, None, {"SegmentTemplate"})>>,
     AdaptationSet |->
        <<Field("id", TRUE, None, {1}),
          Field("segment_base", TRUE, None, {"SegmentBase"}),
          Field("segment_list", TRUE, None, {"SegmentList"}),
          Field("segment_template", TRUE, None, {"SegmentTemplate"})>>]

FieldNames(fields) == {fields[i].name : i \in 1..Len(fields)}

\* XxxBuilder::default(): no field is set.
Builder_default(fields) == [f \in FieldNames(fields) |-> None]

\* A setter that leaves a field that is already set as it is.
Builder_set_once(b, field, value) ==
    IF IsSome(b[field.name]) THEN b
    ELSE [b EXCEPT ![field.name] = Some(IF field.optional THEN Some(value) ELSE value)]

\* The setter of a field, with strip_option.
Builder_set(b, field, value) ==
    [b EXCEPT ![field.name] = Some(IF field.optional THEN Some(value) ELSE value)]

\* self.field.is_some_and(|list| !list.is_empty())
IsNonEmpty(o) == IsSome(o) /\ Len(o.v) > 0

\* impl NeedValidater for ProducerReferenceTimeBuilder
ProducerReferenceTimeBuilder_validate(b) ==
    IF IsNone(b.id) \/ IsNone(b.wall_clock_time) \/ IsNone(b.presentation_time)
    THEN Err("ProducerReferenceTime must be set @id, @wallClockTime and @presentationTime")
    ELSE IF (IsSome(b.type) /\ b.type.v = Some("Application")) /\ IsNone(b.application_scheme)
    THEN Err("If the @type is set other than application, this attribute shall not be present")
    ELSE Ok("()")

\* The two timestamps asked for only when both are missing.
MPDBuilder_validate_both_missing(b) ==
    IF ~IsNonEmpty(b.profiles) THEN Err("MPD must be set profiles.")
    ELSE IF /\ IsSome(b.type) /\ b.type.v = Some("Dynamic")
            /\ IsNone(b.availability_start_time) /\ IsNone(b.publish_time)
    THEN Err("For @type='dynamic', @availabilityStartTime and @publishTime attribute shall be present")
    ELSE Ok("()")

\* impl CustomValidate for MPDBuilder
MPDBuilder_validate(b) ==
    IF ~IsNonEmpty(b.profiles) THEN Err("MPD must be set profiles.")
    ELSE IF /\ IsSome(b.type) /\ b.type.v = Some("Dynamic")
            /\ (IsNone(b.availability_start_time) \/ IsNone(b.publish_time))
    THEN Err("For @type='dynamic', @availabilityStartTime and @publishTime attribute shall be present")
    ELSE Ok("()")

\* The reporting descriptors asked to be set, of whatever number.
MetricsBuilder_validate_is_some(b) ==
    IF IsNone(b.metrics) THEN Err("Metrics must be set @metrics attribute")
    ELSE IF ~IsSome(b.reporting)
    THEN Err("Metrics must be set Reporting element longer than 0")
    ELSE Ok("()")

\* impl NeedValidater for MetricsBuilder
MetricsBuilder_validate(b) ==
    IF IsNone(b.metrics) THEN Err("Metrics must be set @metrics attribute")
    ELSE IF ~IsNonEmpty(b.reporting)
    THEN Err("Metrics must be set Reporting element longer than 0")
    ELSE Ok("()")

\* impl NeedValidater for FailoverContentBuilder
FailoverContentBuilder_validate(b) ==
    IF ~IsNonEmpty(b.fcs_list) THEN Err("FailoverContent must be set FCS longer than 0")
    ELSE Ok("()")

\* impl NeedValidater for ContentPopularityRateBuilder
ContentPopularityRateBuilder_validate(b) ==
    IF IsNone(b.source) THEN Err("ContentPopularityRate must be set @source")
    ELSE IF ~IsNonEmpty(b.popularity_rates)
    THEN Err("ContentPopularityRate must be set PR longer than 0")
    ELSE Ok("()")

\* A validate that takes any u32 for a popularity rate.
PopularityRateBuilder_validate_any(b) ==
    IF IsSome(b.popularity_rate) THEN Ok("()")
    ELSE Err("PopularityRate must be set @popularityRate")

\* impl NeedValidater for PopularityRateBuilder
PopularityRateBuilder_validate(b) ==
    IF IsSome(b.popularity_rate)
    THEN IF ~(b.popularity_rate.v >= 1 /\ b.popularity_rate.v <= 100)
         THEN Err("The value shall be in the range of 1 to 100.")
         ELSE Ok("()")
    ELSE Err("PopularityRate must be set @popularityRate")

\* impl CustomValidate for SegmentBuilder
SegmentBuilder_validate(b) ==
    IF b.duration = None \/ b.duration = Some(0)
    THEN Err("Segment duration must be set longer than 0")
    ELSE Ok("()")

\* impl NeedValidater for UIntVWithIDBuilder
UIntVWithIDBuilder_validate(b) ==
    IF IsNone(b.id) THEN Err("Must be set a unique unsigned integer identifier")
    ELSE Ok("()")

\* impl NeedValidater for LeapSecondInformationBuilder
LeapSecondInformationBuilder_validate(b) ==
    IF IsNone(b.availability_start_leap_offset)
    THEN Err("LeapSecondInformation must be set @availabilityStartLeapOffset")
    ELSE Ok("()")

\* A validate that asks for nothing.
DescriptorBuilder_validate_nothing(b) == Ok("()")

\* impl NeedValidater for DescriptorBuilder
DescriptorBuilder_validate(b) ==
    IF IsNone(b.scheme_id_uri) THEN Err("Descriptor must be set @schemeIdUri")
    ELSE Ok("()")

\* impl NeedValidater for EventStreamBuilder
EventStreamBuilder_validate(b) ==
    IF IsNone(b.scheme_id_uri) THEN Err("EventStream must be set @schemeIdUri")
    ELSE Ok("()")

\* impl NeedValidater for SwitchingBuilder
SwitchingBuilder_validate(b) ==
    IF IsNone(b.interval) THEN Err("Switching must be set @interval")
    ELSE Ok("()")

\* impl NeedValidater for RandomAccessBuilder
RandomAccessBuilder_validate(b) ==
    IF IsNone(b.interval) THEN Err("RandomAccess must be set @interval")
    ELSE Ok("()")

\* impl NeedValidater for ModelPairBuilder
ModelPairBuilder_validate(b) ==
    IF IsNone(b.buffer_time) \/ IsNone(b.bandwidth)
    THEN Err("ModelPair must be set @bufferTime and @bandwidth")
    ELSE Ok("()")

\* impl NeedValidater for ServiceDescriptionBuilder
ServiceDescriptionBuilder_validate(b) ==
    IF IsNone(b.id) THEN Err("ServiceDescription must be set @id")
    ELSE Ok("()")

\* impl NeedValidater for SubsetBuilder
SubsetBuilder_validate(b) ==
    IF IsNone(b.contains) THEN Err("Subset must be set @contains")
    ELSE Ok("()")

\* impl NeedValidater for PreselectionBuilder
PreselectionBuilder_validate(b) ==
    IF IsNone(b.preselection_components)
    THEN Err("Preselection must be set @preselectionComponents")
    ELSE Ok("()")

\* impl NeedValidater for FcsBuilder
FcsBuilder_validate(b) ==
    IF IsNone(b.start_time) THEN Err("FCS must be set @t")
    ELSE Ok("()")

\* A validate that allows one segment-addressing scheme at most.
RepresentationBuilder_validate_one_scheme(b) ==
    IF IsNone(b.id) \/ IsNone(b.bandwidth)
    THEN Err("Representation must be set @id and @bandwidth")
    ELSE IF Cardinality({f \in {"segment_base", "segment_list", "segment_template"} :
                            IsSome(b[f])}) > 1
    THEN Err("Representation must have one segment-addressing scheme at most")
    ELSE Ok("()")

\* impl NeedValidater for RepresentationBuilder
RepresentationBuilder_validate(b) ==
    IF IsNone(b.id) \/ IsNone(b.bandwidth)
    THEN Err("Representation must be set @id and @bandwidth")
    ELSE Ok("()")

\* build_fn(validate = "Self::validate"): the validate of the builder of
\* entity e; SegmentTimelineBuilder, PeriodBuilder and AdaptationSetBuilder
\* have none.
Builder_validate(e, b) ==
    CASE e = "PopularityRate" -> PopularityRateBuilder_validate(b)
      [] e = "Segment" -> SegmentBuilder_validate(b)
      [] e = "SegmentTimeline" -> Ok("()")
      [] e = "UIntVWithID" -> UIntVWithIDBuilder_validate(b)
      [] e = "LeapSecondInformation" -> LeapSecondInformationBuilder_validate(b)
      [] e = "Descriptor" -> DescriptorBuilder_validate(b)
      [] e = "EventStream" -> EventStreamBuilder_validate(b)
      [] e = "Switching" -> SwitchingBuilder_validate(b)
      [] e = "RandomAccess" -> RandomAccessBuilder_validate(b)
      [] e = "ModelPair" -> ModelPairBuilder_validate(b)
      [] e = "ServiceDescription" -> ServiceDescriptionBuilder_validate(b)
      [] e = "Subset" -> SubsetBuilder_validate(b)
      [] e = "Preselection" -> PreselectionBuilder_validate(b)
      [] e = "Fcs" -> FcsBuilder_validate(b)
      [] e = "Representation" -> RepresentationBuilder_validate(b)
      [] e \in {"Period", "AdaptationSet"} -> Ok("()")
      [] e = "FailoverContent" -> FailoverContentBuilder_validate(b)

\* SegmentTimelineBuilder::segment:
\* self.segments.get_or_insert_with(Vec::new).push(segment)
SegmentTimelineBuilder_segment(b, segment) ==
    [b EXCEPT !.segments = Some(Append(IF IsSome(b.segments) THEN b.segments.v ELSE <<>>,
                                       segment))]

\* A setter that puts the segments in the place of those held.
SegmentTimelineBuilder_segments_replacing(b, segments) ==
    [b EXCEPT !.segments = Some(segments)]

\* SegmentTimelineBuilder::segments:
\* self.segments.get_or_insert_with(Vec::new).extend(segments)
SegmentTimelineBuilder_segments(b, segments) ==
    [b EXCEPT !.segments = Some((IF IsSome(b.segments) THEN b.segments.v ELSE <<>>) \o segments)]

\* A build that gives the struct of the defaults, whatever was set.
Builder_build_defaults(fields, b, validated) ==
    IF IsErr(validated) THEN Err([ValidationError |-> validated.e])
    ELSE Ok([f \in FieldNames(fields) |->
                fields[CHOOSE i \in 1..Len(fields) : fields[i].name = f].default])

\* build(): the error of validate, or the struct of the fields set and of
\* the defaults of the others.
Builder_build(fields, b, validated) ==
    IF IsErr(validated) THEN Err([ValidationError |-> validated.e])
    ELSE Ok([f \in FieldNames(fields) |->
                IF IsSome(b[f]) THEN b[f].v
                ELSE fields[CHOOSE i \in 1..Len(fields) : fields[i].name = f].default])

-----------------------------------------------------------------------------
(* The runs of the builders: setters in any order, then build().           *)

InitBuilder ==
    /\ NoCodecRun
    /\ ent \in DOMAIN Entities
    /\ builder = Builder_default(Entities[ent])
    /\ built = None
    /\ results = <<>>

MaxSegments == 3

\* builder.field(value); arg keeps the last call made.
SetField ==
    /\ built = None
    /\ \E i \in 1..Len(Entities[ent]) : \E value \in Entities[ent][i].values :
          /\ builder' = Builder_set(builder, Entities[ent][i], value)
          /\ arg' = [kind |-> "setter", field |-> Entities[ent][i].name, value |-> value]
    /\ UNCHANGED <<ent, built, results, op, out, op2, out2, overflow_checks>>

\* SegmentTimelineBuilder::segment(segment), the segment being one of
\* duration 5 and of some repeat count.
SegmentTimelineSegment ==
    /\ ent = "SegmentTimeline"
    /\ built = None
    /\ \E r \in {10, 15} :
          /\ Len(SegmentTimelineBuilder_segment(builder, [d |-> 5, r |-> r]).segments.v)
                <= MaxSegments
          /\ builder' = SegmentTimelineBuilder_segment(builder, [d |-> 5, r |-> r])
          /\ arg' = [kind |-> "segment", value |-> [d |-> 5, r |-> r]]
    /\ UNCHANGED <<ent, built, results, op, out, op2, out2, overflow_checks>>

\* SegmentTimelineBuilder::segments(segments)
SegmentTimelineSegments ==
    /\ ent = "SegmentTimeline"
    /\ built = None
    /\ \E segments \in {<<>>, <<[d |-> 5, r |-> 10], [d |-> 5, r |-> 15]>>} :
          /\ Len(SegmentTimelineBuilder_segments(builder, segments).segments.v) <= MaxSegments
          /\ builder' = SegmentTimelineBuilder_segments(builder, segments)
          /\ arg' = [kind |-> "segments", value |-> segments]
    /\ UNCHANGED <<ent, built, results, op, out, op2, out2, overflow_checks>>

\* build(), validated being the outcome of validate.
Build(fields, validated) ==
    /\ built = None
    /\ built' = Some(Builder_build(fields, builder, validated))
    /\ results' = Append(results, Builder_build(fields, builder, validated))
    /\ UNCHANGED <<ent, builder, arg, op, out, op2, out2, overflow_checks>>

\* ProducerReferenceTimeBuilder::build()
ProducerReferenceTimeBuild ==
    /\ ent = "ProducerReferenceTime"
    /\ Build(ProducerReferenceTime, ProducerReferenceTimeBuilder_validate(builder))

\* MPDBuilder::build()
MPDBuild ==
    /\ ent = "MPD"
    /\ Build(MPD, MPDBuilder_validate(builder))

\* MetricsBuilder::build()
MetricsBuild ==
    /\ ent = "Metrics"
    /\ Build(Metrics, MetricsBuilder_validate(builder))

\* FailoverContentBuilder::build()
FailoverContentBuild ==
    /\ ent = "FailoverContent"
    /\ Build(FailoverContent, FailoverContentBuilder_validate(builder))

\* ContentPopularityRateBuilder::build()
ContentPopularityRateBuild ==
    /\ ent = "ContentPopularityRate"
    /\ Build(ContentPopularityRate, ContentPopularityRateBuilder_validate(builder))

\* XxxBuilder::build() of the other builders
EntityBuild ==
    /\ ent \notin {"ProducerReferenceTime", "MPD", "Metrics", "FailoverContent",
                   "ContentPopularityRate"}
    /\ Build(Entities[ent], Builder_validate(ent, builder))

NextBuilder ==
    \/ SetField
    \/ SegmentTimelineSegment
    \/ SegmentTimelineSegments
    \/ EntityBuild
    \/ ProducerReferenceTimeBuild
    \/ MPDBuild
    \/ MetricsBuild
    \/ FailoverContentBuild
    \/ ContentPopularityRateBuild

SpecBuilder == InitBuilder /\ [][NextBuilder]_vars

-----------------------------------------------------------------------------
(* The life of a builder and of the entities got from it: setters and      *)
(* build() in any order, build() any number of times up to MaxBuilds; and  *)
(* the other ways to an entity that the public API has: Default::default() *)
(* of the struct and, for a struct with pub fields, an assignment to a     *)
(* field of an entity at hand.                                             *)

MaxBuilds == 2

\* The entity kinds of these runs.
LifecycleEntities == {"Segment", "PopularityRate", "FailoverContent", "Descriptor",
                      "SegmentTimeline"}

\* The structs whose fields are pub: FailoverContent and Fcs.
PubFields == {"FailoverContent", "Fcs"}

\* #[derive(Default)] of a struct: the Default of every field.
Entity_default(fields) ==
    [f \in FieldNames(fields) |->
        fields[CHOOSE i \in 1..Len(fields) : fields[i].name = f].default]

\* entity.field = value, for a pub field; a field of an Option type takes
\* Some(value).
Entity_write(entity, field, value) ==
    [entity EXCEPT ![field.name] = IF field.optional THEN Some(value) ELSE value]

InitLifecycle ==
    /\ NoCodecRun
    /\ ent \in LifecycleEntities
    /\ builder = Builder_default(Entities[ent])
    /\ built = None
    /\ results = <<>>

\* builder.field(value), before or after a build(); arg keeps the last call
\* made.
LifecycleSet ==
    /\ \E i \in 1..Len(Entities[ent]) : \E value \in Entities[ent][i].values :
          /\ builder' = Builder_set(builder, Entities[ent][i], value)
          /\ arg' = [kind |-> "setter", field |-> Entities[ent][i].name]
    /\ UNCHANGED <<ent, built, results, op, out, op2, out2, overflow_checks>>

\* SegmentTimelineBuilder::segment(segment), before or after a build()
LifecycleSegment ==
    /\ ent = "SegmentTimeline"
    /\ \E r \in {10, 15} :
          /\ Len(SegmentTimelineBuilder_segment(builder, [d |-> 5, r |-> r]).segments.v)
                <= MaxSegments
          /\ builder' = SegmentTimelineBuilder_segment(builder, [d |-> 5, r |-> r])
          /\ arg' = [kind |-> "segment", field |-> "segments"]
    /\ UNCHANGED <<ent, built, results, op, out, op2, out2, overflow_checks>>

\* builder.build(): build(&self) reads the builder and clones its fields.
LifecycleBuild ==
    /\ Len(results) < MaxBuilds
    /\ built' = Some(Builder_build(Entities[ent], builder, Builder_validate(ent, builder)))
    /\ results' = Append(results,
                         Builder_build(Entities[ent], builder, Builder_validate(ent, builder)))
    /\ arg' = [kind |-> "build", field |-> ""]
    /\ UNCHANGED <<ent, builder, op, out, op2, out2, overflow_checks>>

\* Xxx::default()
EntityDefault ==
    /\ built' = Some(Ok(Entity_default(Entities[ent])))
    /\ arg' = [kind |-> "default", field |-> ""]
    /\ UNCHANGED <<ent, builder, results, op, out, op2, out2, overflow_checks>>

\* entity.field = value, on the entity at hand
EntityWrite ==
    /\ ent \in PubFields
    /\ IsSome(built)
    /\ IsOk(built.v)
    /\ \E i \in 1..Len(Entities[ent]) : \E value \in Entities[ent][i].values :
          /\ built' = Some(Ok(Entity_write(built.v.v, Entities[ent][i], value)))
          /\ arg' = [kind |-> "write", field |-> Entities[ent][i].name]
    /\ UNCHANGED <<ent, builder, results, op, out, op2, out2, overflow_checks>>

NextLifecycle ==
    \/ LifecycleSet
    \/ LifecycleSegment
    \/ LifecycleBuild
    \/ EntityDefault
    \/ EntityWrite

SpecLifecycle == InitLifecycle /\ [][NextLifecycle]_vars

-----------------------------------------------------------------------------
(* WhitespaceSeparatedList<T> { value: Vec<T> }, for the element types u32 *)
(* (UIntVector) and String (StringVector).                                 *)

\* char::is_whitespace, on the characters the inputs hold.
IsWhitespace(c) == c \in {" ", "\t", "\n", "\r", "\f"}

\* str::split_whitespace(): the maximal runs of characters that are no
\* whitespace, from position i on.
RECURSIVE SplitWhitespace(_, _)
SplitWhitespace(s, i) ==
    LET from == {j \in i..Len(s) : ~IsWhitespace(s[j])}
        b    == CHOOSE j \in from : \A k \in from : j <= k
        stop == {j \in b..Len(s) : IsWhitespace(s[j])} \cup {Len(s) + 1}
        e    == CHOOSE j \in stop : \A k \in stop : j <= k
    IN  IF from = {} THEN <<>>
        ELSE <<SubSeq(s, b, e - 1)>> \o SplitWhitespace(s, e)

\* T::from_str(item): u32 by str::parse, String by String::from (never fails).
Element_from_str(t, item) == IF t = "u32" THEN ParseU32(item) ELSE Ok(item)

\* item.to_string()
Element_to_string(t, v) == IF t = "u32" THEN UIntToString(v) ELSE v

\* A list parser that splits at every single space.
WhitespaceSeparatedList_from_str_by_space(t, s) ==
    LET parsed == [i \in 1..Len(Split(s, " ")) |-> Element_from_str(t, Split(s, " ")[i])]
    IN  IF \E i \in DOMAIN parsed : IsErr(parsed[i])
        THEN Err("InvalidData: Failed to parse from str")
        ELSE Ok(SubSeq([i \in DOMAIN parsed |-> parsed[i].v], 1, Len(parsed)))

\* impl FromStr for WhitespaceSeparatedList<T>: every item is parsed, an
\* item's error is mapped to InvalidData, and collect() into a Result
\* gives the first error or else all the values.
WhitespaceSeparatedList_from_str(t, s) ==
    LET items  == SplitWhitespace(s, 1)
        parsed == [i \in 1..Len(items) |->
                      IF IsOk(Element_from_str(t, items[i])) THEN Element_from_str(t, items[i])
                      ELSE Err("InvalidData: Failed to parse from str")]
        failed == {i \in DOMAIN parsed : IsErr(parsed[i])}
    IN  IF failed # {} THEN parsed[CHOOSE i \in failed : \A j \in failed : i <= j]
        ELSE Ok(SubSeq([i \in DOMAIN parsed |-> parsed[i].v], 1, Len(parsed)))

\* impl fmt::Display for WhitespaceSeparatedList<T>: the items joined by " ".
WhitespaceSeparatedList_to_string(t, value) ==
    Join(SubSeq([i \in 1..Len(value) |-> Element_to_string(t, value[i])], 1, Len(value)), " ")

-----------------------------------------------------------------------------
(* enum Profile: a well-known profile, as [variant |-> name], or           *)
(* Other(String), as [variant |-> "Other", text |-> the string].           *)

\* URN, urn:[a-zA-Z0-9\-]+(:[a-zA-Z0-9\-]+)* : the whole of s matches.
URN(s) ==
    /\ Len(s) > 4
    /\ SubSeq(s, 1, 4) = <<"u", "r", "n", ":">>
    /\ \A i \in 1..Len(Split(SubSeq(s, 5, Len(s)), ":")) :
           AllOf(Split(SubSeq(s, 5, Len(s)), ":")[i], Alnum \cup {"-"})

\* URL, https?://[a-zA-Z0-9\-._~:/?#\[@\]!$&'()*+,;=]+ : the whole of s matches.
URL(s) ==
    LET class == Alnum \cup {"-", ".", "_", "~", ":", "/", "?", "#", "[", "@", "]", "!", "$",
                             "&", "'", "(", ")", "*", "+", ",", ";", "="}
        http  == <<"h", "t", "t", "p", ":", "/", "/">>
        https == <<"h", "t", "t", "p", "s", ":", "/", "/">>
    IN  \/ Len(s) > 7 /\ SubSeq(s, 1, 7) = http /\ AllOf(SubSeq(s, 8, Len(s)), class)
        \/ Len(s) > 8 /\ SubSeq(s, 1, 8) = https /\ AllOf(SubSeq(s, 9, Len(s)), class)

\* PATTERN_PROFILE.is_match(s), ^(URN|URL)((,(URN|URL))*)$ : some of the
\* commas of s cut it into pieces that are each a URN or a URL (the
\* commas left in a piece are characters of a URL).
PATTERN_PROFILE(s) ==
    LET commas == {i \in 1..Len(s) : s[i] = ","}
        next(C, b) == CHOOSE e \in C \cup {Len(s) + 1} :
                          e >= b /\ \A f \in C \cup {Len(s) + 1} : f >= b => e <= f
        piece(C, b) == SubSeq(s, b, next(C, b) - 1)
    IN  \E C \in SUBSET commas :
            \A b \in {1} \cup {c + 1 : c \in C} : URN(piece(C, b)) \/ URL(piece(C, b))

\* #[strum(serialize = ..)] and the arms of the match of from_str: the
\* well-known profiles and their texts.
WellKnownProfiles ==
    <<
      <<"Full",
        <<"u", "r", "n", ":", "m", "p", "e", "g", ":", "d", "a", "s", "h",
          ":", "p", "r", "o", "f", "i", "l", "e", ":", "f", "u", "l", "l",
          ":", "2", "0", "1", "1">>>>,
      <<"IsoOnDemand",
        <<"u", "r", "n", ":", "m", "p", "e", "g", ":", "d", "a", "s", "h",
          ":", "p", "r", "o", "f", "i", "l", "e", ":", "i", "s", "o", "f",
          "f", "-", "o", "n", "-", "d", "e", "m", "a", "n", "d", ":", "2",
          "0", "1", "1">>>>,
      <<"IsoLive",
        <<"u", "r", "n", ":", "m", "p", "e", "g", ":", "d", "a", "s", "h",
          ":", "p", "r", "o", "f", "i", "l", "e", ":", "i", "s", "o", "f",
          "f", "-", "l", "i", "v", "e", ":", "2", "0", "1", "1">>>>,
      <<"IsoMain",
        <<"u", "r", "n", ":", "m", "p", "e", "g", ":", "d", "a", "s", "h",
          ":", "p", "r", "o", "f", "i", "l", "e", ":", "i", "s", "o", "f",
          "f", "-", "m", "a", "i", "n", ":", "2", "0", "1", "1">>>>,
      <<"Mp2tMain",
        <<"u", "r", "n", ":", "m", "p", "e", "g", ":", "d", "a", "s", "h",
          ":", "p", "r", "o", "f", "i", "l", "e", ":", "m", "p", "2", "t",
          "-", "m", "a", "i", "n", ":", "2", "0", "1", "1">>>>,
      <<"Mp2tSimple",
        <<"u", "r", "n", ":", "m", "p", "e", "g", ":", "d", "a", "s", "h",
          ":", "p", "r", "o", "f", "i", "l", "e", ":", "m", "p", "2", "t",
          "-", "s", "i", "m", "p", "l", "e", ":", "2", "0", "1", "1">>>>,
      <<"IsoExtLive",
        <<"u", "r", "n", ":", "m", "p", "e", "g", ":", "d", "a", "s", "h",
          ":", "p", "r", "o", "f", "i", "l", "e", ":", "i", "s", "o", "f",
          "f", "-", "e", "x", "t", "-", "l", "i", "v", "e", ":", "2", "0",
          "1", "4">>>>,
      <<"IsoExtOnDemand",
        <<"u", "r", "n", ":", "m", "p", "e", "g", ":", "d", "a", "s", "h",
          ":", "p", "r", "o", "f", "i", "l", "e", ":", "i", "s", "o", "f",
          "f", "-", "e", "x", "t", "-", "o", "n", "-", "d", "e", "m", "a",
          "n", "d", ":", "2", "0", "1", "4">>>>,
      <<"IsoCommon",
        <<"u", "r", "n", ":", "m", "p", "e", "g", ":", "d", "a", "s", "h",
          ":", "p", "r", "o", "f", "i", "l", "e", ":", "i", "s", "o", "f",
          "f", "-", "c", "o", "m", "m", "o", "n", ":", "2", "0", "1", "4">>>>,
      <<"IsoBroadcast",
        <<"u", "r", "n", ":", "m", "p", "e", "g", ":", "d", "a", "s", "h",
          ":", "p", "r", "o", "f", "i", "l", "e", ":", "i", "s", "o", "f",
          "f", "-", "b", "r", "o", "a", "d", "c", "a", "s", "t", ":", "2",
          "0", "1", "5">>>>,
      <<"Cmaf",
        <<"u", "r", "n", ":", "m", "p", "e", "g", ":", "d", "a", "s", "h",
          ":", "p", "r", "o", "f", "i", "l", "e", ":", "c", "m", "a", "f",
          ":", "2", "0", "1", "9">>>>,
      <<"CmafExt",
        <<"u", "r", "n", ":", "m", "p", "e", "g", ":", "d", "a", "s", "h",
          ":", "p", "r", "o", "f", "i", "l", "e", ":", "c", "m", "a", "f",
          "-", "e", "x", "t", "e", "n", "d", "e", "d", ":", "2", "0", "1", "9">>>>>>

\* impl FromStr for Profile
Profile_from_str(s) ==
    LET known == {i \in 1..Len(WellKnownProfiles) : WellKnownProfiles[i][2] = s}
    IN  IF PATTERN_PROFILE(s)
        THEN Ok(IF known # {} THEN [variant |-> WellKnownProfiles[CHOOSE i \in known : TRUE][1]]
                ELSE [variant |-> "Other", text |-> s])
        ELSE Err("UnmatchedPattern")

\* #[derive(Display)] of strum, for a well-known profile: its serialize text.
Profile_to_string(p) ==
    WellKnownProfiles[CHOOSE i \in 1..Len(WellKnownProfiles) :
                          WellKnownProfiles[i][1] = p.variant][2]

\* The inputs of the profiles: the well-known profiles, their texts, and
\* other texts: URNs, URLs, lists of them, other URIs, and texts that are
\* no URI.
ProfileInputs ==
    {[kind |-> "profile", p |-> [variant |-> WellKnownProfiles[i][1]]] :
        i \in 1..Len(WellKnownProfiles)}
    \cup {[kind |-> "profile_text", s |-> WellKnownProfiles[i][2]] :
            i \in 1..Len(WellKnownProfiles)}
    \cup {[kind |-> "profile_text", s |-> s] : s \in {
        <<>>,
        <<"f", "o", "o">>,
        <<"u", "r", "n", ":", "a">>,
        <<"u", "r", "n", ":", "a", "_", "b">>,
        <<"u", "r", "n", ":", "a", ":">>,
        <<"u", "r", "n", ":">>,
        <<"f", "t", "p", ":", "/", "/", "e", "x", "a", "m", "p", "l", "e",
          ".", "c", "o", "m", "/", "p">>,
        <<"h", "t", "t", "p", "s", ":", "/", "/", "e", "x", "a", "m", "p",
          "l", "e", ".", "c", "o", "m">>,
        <<"h", "t", "t", "p", ":", "/", "/", "a">>,
        <<"h", "t", "t", "p", ":", "/", "/">>,
        <<"t", "a", "g", ":", "e", "x", "a", "m", "p", "l", "e", ".", "c",
          "o", "m", ",", "2", "0", "2", "4", ":", "p">>,
        <<"u", "r", "n", ":", "a", ",", "u", "r", "n", ":", "b">>,
        <<"u", "r", "n", ":", "a", ",">>,
        <<"h", "t", "t", "p", ":", "/", "/", "a", ",", "b">>,
        <<"u", "r", "n", ":", "a", ",", "h", "t", "t", "p", ":", "/", "/",
          "b", ",", "c">>,
        <<" ", "u", "r", "n", ":", "a">>,
        <<"u", "r", "n", ":", "m", "p", "e", "g", ":", "d", "a", "s", "h",
          ":", "p", "r", "o", "f", "i", "l", "e", ":", "f", "u", "l", "l",
          ":", "2", "0", "1", "1", " ">>,
        <<"u", "r", "n", ":", "m", "p", "e", "g", ":", "d", "a", "s", "h",
          ":", "p", "r", "o", "f", "i", "l", "e", ":", "f", "u", "l", "l",
          ":", "2", "0", "1", "2">>,
        <<"U", "R", "N", ":", "M", "P", "E", "G", ":", "D", "A", "S", "H",
          ":", "P", "R", "O", "F", "I", "L", "E", ":", "F", "U", "L", "L",
          ":", "2", "0", "1", "1">>,
        <<"u", "r", "n", ":", "m", "p", "e", "g", ":", "d", "a", "s", "h",
          ":", "p", "r", "o", "f", "i", "l", "e", ":", "f", "u", "l", "l",
          ":", "2", "0", "1", "1", ",", "u", "r", "n", ":", "m", "p", "e",
          "g", ":", "d", "a", "s", "h", ":", "p", "r", "o", "f", "i", "l",
          "e", ":", "c", "m", "a", "f", ":", "2", "0", "1", "9">>}}

-----------------------------------------------------------------------------
(* XsId, XsLanguage and NoWhitespace: { value: String }.                   *)

\* str::trim(): s without the whitespace it starts with and ends with.
Trim(s) ==
    LET keep == {i \in 1..Len(s) : ~IsWhitespace(s[i])}
    IN  IF keep = {} THEN <<>>
        ELSE SubSeq(s, CHOOSE i \in keep : \A j \in keep : i <= j,
                       CHOOSE i \in keep : \A j \in keep : i >= j)

\* str::replace(from, to): every occurrence of the text from, taken from
\* the left and without overlap, becomes the text to.
RECURSIVE Replace(_, _, _)
Replace(s, from, to) ==
    IF Len(s) < Len(from) THEN s
    ELSE IF SubSeq(s, 1, Len(from)) = from
    THEN to \o Replace(SubSeq(s, Len(from) + 1, Len(s)), from, to)
    ELSE <<Head(s)>> \o Replace(Tail(s), from, to)

\* PATTERN_NC_NAME.is_match(s), ^[A-Za-z_][A-Za-z0-9_\-\.]*$
PATTERN_NC_NAME(s) ==
    /\ s # <<>>
    /\ s[1] \in Letters \cup {"_"}
    /\ \A i \in 2..Len(s) : s[i] \in Alnum \cup {"_", "-", "."}

\* PATTERN_NO_WHITESPACE.is_match(s), ^[^\r\n\t \p{Z}]*$ : of the characters
\* of the inputs, the space is the only one of the category Z.
PATTERN_NO_WHITESPACE(s) == \A i \in 1..Len(s) : s[i] \notin {"\r", "\n", "\t", " "}

\* An XsId parser that matches the text as it is given.
XsId_from_str_as_given(s) ==
    IF ~PATTERN_NC_NAME(s) THEN Err("UnmatchedPattern")
    ELSE Ok([value |-> s])

\* impl FromStr for XsId
XsId_from_str(s) ==
    LET value == Replace(Replace(Trim(s), <<"\n">>, <<" ">>), <<"\r", "\n">>, <<" ">>)
    IN  IF ~PATTERN_NC_NAME(value) THEN Err("UnmatchedPattern")
        ELSE Ok([value |-> value])

\* impl FromStr for XsLanguage; PATTERN_LANG is ^LANGUAGE$.
XsLanguage_from_str(s) ==
    LET value == Replace(Replace(Trim(s), <<"\n">>, <<" ">>), <<"\r", "\n">>, <<" ">>)
    IN  IF ~LANGUAGE(value) THEN Err("UnmatchedPattern")
        ELSE Ok([value |-> value])

\* impl FromStr for NoWhitespace
NoWhitespace_from_str(s) ==
    IF ~PATTERN_NO_WHITESPACE(s) THEN Err("UnmatchedPattern")
    ELSE Ok([value |-> s])

\* The inputs of the names: a text that neither starts nor ends with
\* whitespace, the whitespace before it and after it, and the text s made
\* of the three.
NameInputs ==
    LET cores == {<<>>, <<"e", "n">>, <<"e", "n", "-", "G", "B">>, <<"i", "-", "n", "a", "v", "a", "j", "o">>,
                  <<"l", "o", "n", "g", "e", "r", "T", "h", "a", "n", "8">>,
                  <<"m", "y", "E", "l", "e", "m", "e", "n", "t">>,
                  <<"_", "m", "y", ".", "E", "l", "e", "m", "e", "n", "t">>,
                  <<"m", "y", "-", "E", "l", "e", "m", "e", "n", "t">>,
                  <<"p", "r", "e", ":", "m", "y">>, <<"-", "m", "y">>, <<"1", "2", "3", "!", "?">>,
                  <<"e", "n", " ", "G", "B">>, <<"e", "n", "\n", "G", "B">>,
                  <<"e", "n", "\r", "\n", "G", "B">>, <<"e", "n", "\t", "G", "B">>,
                  <<"e", "n", "\f", "G", "B">>}
        leads  == {<<>>, <<" ">>, <<" ", " ">>, <<"\n">>, <<"\t">>}
        trails == {<<>>, <<" ">>, <<"\r", "\n">>}
    IN  {[kind |-> "name_text", core |-> core, lead |-> lead, trail |-> trail,
          s |-> lead \o core \o trail] : core \in cores, lead \in leads, trail \in trails}

-----------------------------------------------------------------------------
(* XsDateTime { value: chrono::DateTime<Utc> }: the value is an instant,   *)
(* [days |-> days since 1970-01-01, secs |-> second of the day,            *)
(*  nanos |-> nanoseconds, 10^9 and more in a leap second].                *)
(* The instants the inputs are made of were computed with a calendar that  *)
(* is independent of the operators below.                                  *)

\* The number n in w decimal digits.
PadInt(n, w) ==
    SubSeq([i \in 1..w |-> DigitChars[((n \div (10 ^ (w - i))) % 10) + 1]], 1, w)

\* The number a sequence of decimal digits writes.
RECURSIVE DigitsToInt(_)
DigitsToInt(ds) ==
    IF ds = <<>> THEN 0 ELSE 10 * DigitsToInt(SubSeq(ds, 1, Len(ds) - 1)) + ds[Len(ds)]

\* The days of month m of year y in the Gregorian calendar.
DaysInMonth(y, m) ==
    IF m = 2 THEN (IF (y % 4 = 0 /\ y % 100 # 0) \/ y % 400 = 0 THEN 29 ELSE 28)
    ELSE IF m \in {4, 6, 9, 11} THEN 30 ELSE 31

\* The days from 1970-01-01 to the day d of month m of year y.
DaysFromCivil(y, m, d) ==
    LET yy  == IF m <= 2 THEN y - 1 ELSE y
        era == yy \div 400
        yoe == yy - era * 400
        doy == ((153 * (IF m > 2 THEN m - 3 ELSE m + 9) + 2) \div 5) + d - 1
        doe == yoe * 365 + (yoe \div 4) - (yoe \div 100) + doy
    IN  era * 146097 + doe - 719468

\* The year, month and day of the day that is z days after 1970-01-01.
CivilFromDays(z) ==
    LET era == (z + 719468) \div 146097
        doe == (z + 719468) - era * 146097
        yoe == (doe - (doe \div 1460) + (doe \div 36524) - (doe \div 146096)) \div 365
        doy == doe - (365 * yoe + (yoe \div 4) - (yoe \div 100))
        mp  == (5 * doy + 2) \div 153
        m   == IF mp < 10 THEN mp + 3 ELSE mp - 9
    IN  [y |-> yoe + era * 400 + (IF m <= 2 THEN 1 ELSE 0), m |-> m,
         d |-> doy - ((153 * mp + 2) \div 5) + 1]

\* The date, the time and the fraction that a text starts with, in the form
\* YYYY-MM-DDTHH:MM:SS and then a '.' and digits or nothing, as
\* parse_from_rfc3339 and the format "%Y-%m-%dT%H:%M:%S%.f" read them from a
\* text whose numbers have these widths: the error, or the local date and
\* time with the text that follows.  A second of 60 is a leap second; of
\* the digits of a fraction the first nine count.
DateTimeFields(s) ==
    LET n == Len(s)
        isnum(i, k) == i + k - 1 <= n /\ \A j \in i..(i + k - 1) : IsDigit(s[j])
        num(i, k) == DigitsToInt(DigitsOf(SubSeq(s, i, i + k - 1)))
        shape == /\ n >= 19
                 /\ isnum(1, 4) /\ s[5] = "-" /\ isnum(6, 2) /\ s[8] = "-" /\ isnum(9, 2)
                 /\ s[11] = "T"
                 /\ isnum(12, 2) /\ s[14] = ":" /\ isnum(15, 2) /\ s[17] = ":" /\ isnum(18, 2)
        fracs == IF n >= 21 /\ s[20] = "." THEN {j \in 21..n : isnum(21, j - 20)} ELSE {}
        last  == IF fracs = {} THEN 19 ELSE CHOOSE j \in fracs : \A k \in fracs : k <= j
        nine  == SubSeq(DigitsOf(SubSeq(s, 21, last)) \o <<0, 0, 0, 0, 0, 0, 0, 0, 0>>, 1, 9)
    IN  IF ~shape THEN Err("ChronoParseError")
        ELSE IF \/ num(6, 2) \notin 1..12
                \/ num(9, 2) \notin 1..DaysInMonth(num(1, 4), num(6, 2))
                \/ num(12, 2) > 23 \/ num(15, 2) > 59 \/ num(18, 2) > 60
        THEN Err("ChronoParseError")
        ELSE Ok([days  |-> DaysFromCivil(num(1, 4), num(6, 2), num(9, 2)),
                 secs  |-> num(12, 2) * 3600 + num(15, 2) * 60
                              + (IF num(18, 2) = 60 THEN 59 ELSE num(18, 2)),
                 nanos |-> (IF fracs = {} THEN 0 ELSE DigitsToInt(nine))
                              + (IF num(18, 2) = 60 THEN 1000000000 ELSE 0),
                 rest  |-> SubSeq(s, last + 1, n)])

\* The offset a text writes, in minutes: Z or z, or a sign, two digits of
\* hours, a colon and two digits of minutes, of less than a day.
TimezoneOffset(s) ==
    LET hh == DigitsToInt(DigitsOf(SubSeq(s, 2, 3)))
        mm == DigitsToInt(DigitsOf(SubSeq(s, 5, 6)))
    IN  IF s \in {<<"Z">>, <<"z">>} THEN Ok(0)
        ELSE IF /\ Len(s) = 6 /\ s[1] \in {"+", "-"} /\ s[4] = ":"
                /\ \A i \in {2, 3, 5, 6} : IsDigit(s[i])
        THEN IF hh > 23 \/ mm > 59 THEN Err("ChronoParseError")
             ELSE Ok(IF s[1] = "-" THEN 0 - (hh * 60 + mm) ELSE hh * 60 + mm)
        ELSE Err("ChronoParseError")

\* to_utc(): the instant of the local date and time t at an offset of
\* minutes east of UTC.
ToUtc(t, minutes) ==
    [days  |-> t.days + ((t.secs - minutes * 60) \div 86400),
     secs  |-> (t.secs - minutes * 60) % 86400,
     nanos |-> t.nanos]

\* An instant taken for UTC as it is written, whatever the offset.
XsDateTime_of_local(t, offset) == Ok([value |-> ToUtc(t, 0)])

\* The instant of the fields t of a text at the offset read from it; an
\* error of the offset is the error of the text.
XsDateTime_of(t, offset) ==
    IF IsErr(offset) THEN offset ELSE Ok([value |-> ToUtc(t, offset.v)])

\* impl FromStr for XsDateTime; local is what and_local_timezone(Local)
\* gives for a time without an offset in the environment of the process:
\* Some(minutes), the offset of the local time zone, or None when the local
\* time zone has no such time or has it twice.
XsDateTime_from_str(s, local) ==
    LET pieces == Split(s, "T")
        fields == DateTimeFields(s)
    IN  IF Len(pieces) < 2 THEN Err("UnmatchedPattern")
        ELSE IF \E c \in {"Z", "+", "-"} : Contains(pieces[2], c)
        THEN IF IsErr(fields) THEN fields
             ELSE XsDateTime_of(fields.v, TimezoneOffset(fields.v.rest))
        ELSE IF IsErr(fields) THEN fields
        ELSE IF fields.v.rest # <<>> THEN Err("ChronoParseError")
        ELSE IF IsNone(local) THEN Panic("called Option::unwrap() on a None value")
        ELSE XsDateTime_of(fields.v, Ok(local.v))

\* impl fmt::Display for XsDateTime:
\* to_rfc3339_opts(SecondsFormat::AutoSi, true), the fraction in no, three,
\* six or nine digits and the offset of UTC as Z.
XsDateTime_to_string(self) ==
    LET value == self.value
        date == CivilFromDays(value.days)
        nano == value.nanos % 1000000000
        frac == IF nano = 0 THEN <<>>
                ELSE IF nano % 1000000 = 0 THEN <<".">> \o PadInt(nano \div 1000000, 3)
                ELSE IF nano % 1000 = 0 THEN <<".">> \o PadInt(nano \div 1000, 6)
                ELSE <<".">> \o PadInt(nano, 9)
    IN  PadInt(date.y, 4) \o <<"-">> \o PadInt(date.m, 2) \o <<"-">> \o PadInt(date.d, 2)
            \o <<"T">> \o PadInt(value.secs \div 3600, 2)
            \o <<":">> \o PadInt((value.secs \div 60) % 60, 2)
            \o <<":">> \o PadInt((value.secs % 60) + (value.nanos \div 1000000000), 2)
            \o frac \o <<"Z">>

\* Instants: the date, hour and minute in UTC, the second, the digits of
\* the fraction as a text writes them and as AutoSi writes them, the days
\* since 1970-01-01, the second of the day and the nanoseconds, and the
\* local date, hour and minute at some offsets (minutes east, written as Z
\* or in numbers).
Instants ==
    <<
      [utc |-> <<2004, 4, 12, 18, 20>>, sec |-> 0, frac |-> <<>>, auto |-> <<>>,
       days |-> 12520, secs |-> 66000, nanos |-> 0,
       local |-> <<<<2004, 4, 12, 18, 20, 0, "Z">>,
                   <<2004, 4, 12, 13, 20, -300, "n">>,
                   <<2004, 4, 12, 6, 20, -720, "n">>,
                   <<2004, 4, 12, 18, 19, -1, "n">>>>],
      [utc |-> <<2004, 4, 12, 18, 20>>, sec |-> 15, frac |-> <<"5">>, auto |-> <<"5", "0", "0">>,
       days |-> 12520, secs |-> 66015, nanos |-> 500000000,
       local |-> <<<<2004, 4, 12, 18, 20, 0, "n">>,
                   <<2004, 4, 13, 3, 20, 540, "n">>,
                   <<2004, 4, 13, 8, 20, 840, "n">>,
                   <<2004, 4, 13, 18, 19, 1439, "n">>>>],
      [utc |-> <<2004, 1, 1, 0, 30>>, sec |-> 0, frac |-> <<>>, auto |-> <<>>,
       days |-> 12418, secs |-> 1800, nanos |-> 0,
       local |-> <<<<2004, 1, 1, 0, 30, 0, "Z">>,
                   <<2004, 1, 1, 6, 0, 330, "n">>,
                   <<2004, 1, 1, 0, 29, -1, "n">>,
                   <<2003, 12, 31, 0, 31, -1439, "n">>>>],
      [utc |-> <<2003, 12, 31, 23, 30>>, sec |-> 59, frac |-> <<"1", "2", "3", "4", "5", "6">>, auto |-> <<"1", "2", "3", "4", "5", "6">>,
       days |-> 12417, secs |-> 84659, nanos |-> 123456000,
       local |-> <<<<2003, 12, 31, 23, 30, 0, "n">>,
                   <<2003, 12, 31, 11, 30, -720, "n">>,
                   <<2004, 1, 1, 23, 29, 1439, "n">>,
                   <<2003, 12, 31, 18, 30, -300, "n">>>>],
      [utc |-> <<2004, 2, 29, 23, 30>>, sec |-> 0, frac |-> <<>>, auto |-> <<>>,
       days |-> 12477, secs |-> 84600, nanos |-> 0,
       local |-> <<<<2004, 2, 29, 23, 30, 0, "Z">>,
                   <<2004, 3, 1, 13, 30, 840, "n">>,
                   <<2004, 2, 28, 23, 31, -1439, "n">>,
                   <<2004, 3, 1, 8, 30, 540, "n">>>>],
      [utc |-> <<2004, 3, 1, 0, 0>>, sec |-> 0, frac |-> <<"0", "0", "0", "0", "0", "0", "0", "0", "1">>, auto |-> <<"0", "0", "0", "0", "0", "0", "0", "0", "1">>,
       days |-> 12478, secs |-> 0, nanos |-> 1,
       local |-> <<<<2004, 3, 1, 0, 0, 0, "n">>,
                   <<2004, 2, 29, 23, 59, -1, "n">>,
                   <<2004, 2, 29, 19, 0, -300, "n">>,
                   <<2004, 3, 1, 5, 30, 330, "n">>>>],
      [utc |-> <<2001, 2, 28, 23, 59>>, sec |-> 59, frac |-> <<"9", "9", "9">>, auto |-> <<"9", "9", "9">>,
       days |-> 11381, secs |-> 86399, nanos |-> 999000000,
       local |-> <<<<2001, 2, 28, 23, 59, 0, "Z">>,
                   <<2001, 3, 1, 23, 58, 1439, "n">>,
                   <<2001, 3, 1, 8, 59, 540, "n">>,
                   <<2001, 2, 28, 11, 59, -720, "n">>>>],
      [utc |-> <<2001, 3, 1, 0, 15>>, sec |-> 0, frac |-> <<>>, auto |-> <<>>,
       days |-> 11382, secs |-> 900, nanos |-> 0,
       local |-> <<<<2001, 3, 1, 0, 15, 0, "n">>,
                   <<2001, 2, 28, 0, 16, -1439, "n">>,
                   <<2001, 3, 1, 5, 45, 330, "n">>,
                   <<2001, 3, 1, 14, 15, 840, "n">>>>],
      [utc |-> <<2000, 2, 29, 12, 0>>, sec |-> 0, frac |-> <<"2", "5">>, auto |-> <<"2", "5", "0">>,
       days |-> 11016, secs |-> 43200, nanos |-> 250000000,
       local |-> <<<<2000, 2, 29, 12, 0, 0, "Z">>,
                   <<2000, 2, 29, 7, 0, -300, "n">>,
                   <<2000, 2, 29, 0, 0, -720, "n">>,
                   <<2000, 2, 29, 11, 59, -1, "n">>>>],
      [utc |-> <<1999, 12, 31, 23, 0>>, sec |-> 0, frac |-> <<>>, auto |-> <<>>,
       days |-> 10956, secs |-> 82800, nanos |-> 0,
       local |-> <<<<1999, 12, 31, 23, 0, 0, "n">>,
                   <<2000, 1, 1, 8, 0, 540, "n">>,
                   <<2000, 1, 1, 13, 0, 840, "n">>,
                   <<2000, 1, 1, 22, 59, 1439, "n">>>>],
      [utc |-> <<2000, 1, 1, 0, 0>>, sec |-> 0, frac |-> <<>>, auto |-> <<>>,
       days |-> 10957, secs |-> 0, nanos |-> 0,
       local |-> <<<<2000, 1, 1, 0, 0, 0, "Z">>,
                   <<2000, 1, 1, 5, 30, 330, "n">>,
                   <<1999, 12, 31, 23, 59, -1, "n">>,
                   <<1999, 12, 31, 0, 1, -1439, "n">>>>],
      [utc |-> <<2100, 2, 28, 20, 0>>, sec |-> 0, frac |-> <<"1", "2", "3", "4", "5", "6", "7">>, auto |-> <<"1", "2", "3", "4", "5", "6", "7", "0", "0">>,
       days |-> 47540, secs |-> 72000, nanos |-> 123456700,
       local |-> <<<<2100, 2, 28, 20, 0, 0, "n">>,
                   <<2100, 2, 28, 8, 0, -720, "n">>,
                   <<2100, 3, 1, 19, 59, 1439, "n">>,
                   <<2100, 2, 28, 15, 0, -300, "n">>>>],
      [utc |-> <<2100, 3, 1, 3, 0>>, sec |-> 0, frac |-> <<>>, auto |-> <<>>,
       days |-> 47541, secs |-> 10800, nanos |-> 0,
       local |-> <<<<2100, 3, 1, 3, 0, 0, "Z">>,
                   <<2100, 3, 1, 17, 0, 840, "n">>,
                   <<2100, 2, 28, 3, 1, -1439, "n">>,
                   <<2100, 3, 1, 12, 0, 540, "n">>>>],
      [utc |-> <<2024, 12, 31, 19, 45>>, sec |-> 30, frac |-> <<"1", "2", "0">>, auto |-> <<"1", "2", "0">>,
       days |-> 20088, secs |-> 71130, nanos |-> 120000000,
       local |-> <<<<2024, 12, 31, 19, 45, 0, "n">>,
                   <<2024, 12, 31, 19, 44, -1, "n">>,
                   <<2024, 12, 31, 14, 45, -300, "n">>,
                   <<2025, 1, 1, 1, 15, 330, "n">>>>],
      [utc |-> <<1970, 1, 1, 0, 0>>, sec |-> 0, frac |-> <<>>, auto |-> <<>>,
       days |-> 0, secs |-> 0, nanos |-> 0,
       local |-> <<<<1970, 1, 1, 0, 0, 0, "Z">>,
                   <<1970, 1, 1, 23, 59, 1439, "n">>,
                   <<1970, 1, 1, 9, 0, 540, "n">>,
                   <<1969, 12, 31, 12, 0, -720, "n">>>>],
      [utc |-> <<2038, 1, 19, 3, 14>>, sec |-> 8, frac |-> <<>>, auto |-> <<>>,
       days |-> 24855, secs |-> 11648, nanos |-> 0,
       local |-> <<<<2038, 1, 19, 3, 14, 0, "n">>,
                   <<2038, 1, 18, 3, 15, -1439, "n">>,
                   <<2038, 1, 19, 8, 44, 330, "n">>,
                   <<2038, 1, 19, 17, 14, 840, "n">>>>]>>

\* The text of a date and time at an offset.
DateTimeText(t, sec, frac) ==
    PadInt(t[1], 4) \o <<"-">> \o PadInt(t[2], 2) \o <<"-">> \o PadInt(t[3], 2)
        \o <<"T">> \o PadInt(t[4], 2) \o <<":">> \o PadInt(t[5], 2) \o <<":">> \o PadInt(sec, 2)
        \o (IF frac = <<>> THEN <<>> ELSE <<".">> \o frac)
        \o (IF Len(t) < 7 \/ t[7] = "Z" THEN <<"Z">>
            ELSE <<IF t[6] < 0 THEN "-" ELSE "+">>
                    \o PadInt((IF t[6] < 0 THEN 0 - t[6] ELSE t[6]) \div 60, 2) \o <<":">>
                    \o PadInt((IF t[6] < 0 THEN 0 - t[6] ELSE t[6]) % 60, 2))

\* The inputs of the date-times: for every instant, the text of its local
\* time at one offset, with the text at another one and the text in UTC;
\* and texts without an offset and texts that are no date-time.
DateTimeInputs ==
    {[kind |-> "datetime_text",
      s |-> DateTimeText(Instants[g].local[i], Instants[g].sec, Instants[g].frac),
      same |-> DateTimeText(Instants[g].local[j], Instants[g].sec, Instants[g].frac),
      days |-> Instants[g].days, secs |-> Instants[g].secs, nanos |-> Instants[g].nanos,
      utc |-> DateTimeText(Instants[g].utc, Instants[g].sec, Instants[g].auto)] :
        g \in 1..Len(Instants), i \in 1..4, j \in 1..4}
    \cup {[kind |-> "datetime_other", s |-> s] : s \in {
        <<"2", "0", "0", "4", "-", "0", "4", "-", "1", "2", "T", "1", "3",
          ":", "2", "0", ":", "0", "0">>,
        <<"2", "0", "0", "4", "-", "0", "4", "-", "1", "2", "T", "1", "3",
          ":", "2", "0", ":", "1", "5", ".", "5">>,
        <<"2", "0", "0", "4", "-", "0", "4", "-", "1", "2", "T", "1", "3",
          ":", "0", "0">>,
        <<"2", "0", "0", "4", "-", "0", "4", "-", "1", "2", "1", "3", ":",
          "2", "0", ":", "0", "0">>,
        <<"9", "9", "-", "0", "4", "-", "1", "2", "T", "1", "3", ":", "0", "0">>,
        <<"2", "0", "0", "4", "-", "0", "4", "-", "1", "2">>,
        <<>>,
        <<"T">>,
        <<"2", "0", "0", "4", "-", "0", "2", "-", "3", "0", "T", "0", "0",
          ":", "0", "0", ":", "0", "0", "Z">>,
        <<"2", "0", "0", "1", "-", "0", "2", "-", "2", "9", "T", "0", "0",
          ":", "0", "0", ":", "0", "0", "Z">>,
        <<"2", "0", "0", "4", "-", "0", "4", "-", "1", "2", "T", "2", "4",
          ":", "0", "0", ":", "0", "0", "Z">>,
        <<"2", "0", "0", "4", "-", "1", "3", "-", "1", "2", "T", "0", "0",
          ":", "0", "0", ":", "0", "0", "Z">>,
        <<"2", "0", "0", "4", "-", "0", "4", "-", "1", "2", "T", "1", "3",
          ":", "2", "0", ":", "0", "0", "+", "2", "4", ":", "0", "0">>,
        <<"2", "0", "0", "4", "-", "0", "4", "-", "1", "2", "T", "1", "3",
          ":", "2", "0", ":", "0", "0", "-", "0", "5", ":", "6", "0">>,
        <<"2", "0", "0", "4", "-", "0", "4", "-", "1", "2", "T", "1", "3",
          ":", "2", "0", ":", "0", "0", ".", "Z">>,
        <<"2", "0", "0", "4", "-", "0", "4", "-", "1", "2", "T", "1", "3",
          ":", "2", "0", ":", "0", "0", "Z", "x">>,
        <<"2", "0", "0", "4", "-", "0", "4", "-", "1", "2", "T", "2", "3",
          ":", "5", "9", ":", "6", "0", "Z">>,
        <<"2", "0", "0", "4", "-", "0", "4", "-", "1", "2", "T", "1", "3",
          ":", "2", "0", ":", "6", "1", "Z">>,
        <<"2", "0", "0", "4", "-", "0", "4", "-", "1", "2", "T", "1", "3",
          ":", "2", "0", ":", "0", "0", "-", "0", "5">>,
        <<"2", "0", "0", "4", "-", "0", "4", "-", "1", "2", "T", "1", "3",
          ":", "2", "a", ":", "0", "0", "Z">>,
        <<"2", "0", "0", "4", "-", "0", "4", "-", "1", "2", "t", "1", "3",
          ":", "2", "0", ":", "0", "0", "Z">>}}

\* and_local_timezone(Local): the local time zones of the runs, by their
\* offset in minutes, and a time the local time zone does not have.
LocalResults == {Some(0), Some(540), Some(-300), None}

-----------------------------------------------------------------------------
(* The runs of the text codecs: lists, profiles, names and date-times.     *)

MaxListLen == 2

\* The inputs of the lists: an element type, the texts of the items, the
\* whitespace that precedes the first item, separates two items and follows
\* the last one, and the text s made of them; and list values.
ListInputs ==
    LET items == {<<"0">>, <<"1">>, <<"4", "2">>, <<"0", "1">>, <<"+", "1">>,
                  UIntToString(U32_MAX), UIntToString(<<4, 2, 9, 4, 9, 6, 7, 2, 9, 6>>),
                  <<"a">>, <<"-", "1">>, <<"a", ",", "b">>}
        seps  == {<<" ">>, <<" ", " ">>, <<"\t">>, <<"\r", "\n">>}
        ends  == {<<>>, <<" ">>}
        text(elems, lead, sep, trail) ==
            lead \o Concat([i \in 1..Len(elems) |->
                               IF i = 1 THEN elems[i] ELSE sep \o elems[i]]) \o trail
    IN  {[kind |-> "list_text", t |-> t, elems |-> elems, lead |-> lead, sep |-> sep,
          trail |-> trail, s |-> text(elems, lead, sep, trail)] :
            t \in {"u32", "String"}, elems \in SeqsUpTo(items, MaxListLen),
            lead \in ends, sep \in seps, trail \in ends}
        \cup {[kind |-> "list", t |-> "u32", value |-> l] :
                l \in SeqsUpTo({BigZero, <<1>>, <<4, 2>>, U32_MAX}, MaxListLen)}
        \cup {[kind |-> "list", t |-> "String", value |-> l] :
                l \in SeqsUpTo({<<"a">>, <<"0", "1">>, <<"a", ",", "b">>}, MaxListLen)}

TextInputs == ListInputs \cup ProfileInputs \cup NameInputs \cup DateTimeInputs

InitText ==
    /\ arg \in TextInputs
    /\ op = "init"
    /\ out = None
    /\ op2 = "none"
    /\ out2 = None
    /\ overflow_checks = TRUE
    /\ NoBuilderRun

\* WhitespaceSeparatedList::<T>::from_str(s)
ListFromStr ==
    /\ arg.kind = "list_text"
    /\ First("WhitespaceSeparatedList::from_str", WhitespaceSeparatedList_from_str(arg.t, arg.s))

\* WhitespaceSeparatedList::<T>::from_str(s)?.to_string()
ListFormat ==
    /\ op = "WhitespaceSeparatedList::from_str"
    /\ IsOk(out)
    /\ Second("WhitespaceSeparatedList::to_string",
              Ok(WhitespaceSeparatedList_to_string(arg.t, out.v)))

\* list.to_string()
ListToString ==
    /\ arg.kind = "list"
    /\ First("WhitespaceSeparatedList::to_string",
             Ok(WhitespaceSeparatedList_to_string(arg.t, arg.value)))

\* WhitespaceSeparatedList::<T>::from_str(&list.to_string())
ListReparse ==
    /\ op = "WhitespaceSeparatedList::to_string"
    /\ Second("WhitespaceSeparatedList::from_str",
              WhitespaceSeparatedList_from_str(arg.t, out.v))

\* Profile::from_str(s)
ProfileFromStr ==
    /\ arg.kind = "profile_text"
    /\ First("Profile::from_str", Profile_from_str(arg.s))

\* p.to_string() of a well-known profile
ProfileToString ==
    /\ arg.kind = "profile"
    /\ First("Profile::to_string", Ok(Profile_to_string(arg.p)))

\* Profile::from_str(&p.to_string())
ProfileReparse ==
    /\ op = "Profile::to_string"
    /\ Second("Profile::from_str", Profile_from_str(out.v))

\* XsId::from_str(s)
XsIdFromStr ==
    /\ arg.kind = "name_text"
    /\ First("XsId::from_str", XsId_from_str(arg.s))

\* XsLanguage::from_str(s)
XsLanguageFromStr ==
    /\ arg.kind = "name_text"
    /\ First("XsLanguage::from_str", XsLanguage_from_str(arg.s))

\* NoWhitespace::from_str(s)
NoWhitespaceFromStr ==
    /\ arg.kind = "name_text"
    /\ First("NoWhitespace::from_str", NoWhitespace_from_str(arg.s))

\* name.to_string(): write!(f, "{}", self.value)
NameToString ==
    /\ op \in {"XsId::from_str", "XsLanguage::from_str", "NoWhitespace::from_str"}
    /\ IsOk(out)
    /\ Second("to_string", Ok(out.v.value))

\* XsDateTime::from_str(s)
XsDateTimeFromStr ==
    /\ arg.kind \in {"datetime_text", "datetime_other"}
    /\ \E local \in LocalResults :
          First("XsDateTime::from_str", XsDateTime_from_str(arg.s, local))

\* XsDateTime::from_str(s)?.to_string()
XsDateTimeToString ==
    /\ op = "XsDateTime::from_str"
    /\ IsOk(out)
    /\ Second("XsDateTime::to_string", Ok(XsDateTime_to_string(out.v)))

\* XsDateTime::from_str(same), same a text of the instant of s at another offset
XsDateTimeFromStrSame ==
    /\ op = "XsDateTime::from_str"
    /\ arg.kind = "datetime_text"
    /\ \E local \in LocalResults :
          Second("XsDateTime::from_str", XsDateTime_from_str(arg.same, local))

NextText ==
    \/ XsIdFromStr
    \/ XsLanguageFromStr
    \/ NoWhitespaceFromStr
    \/ NameToString
    \/ ListFromStr
    \/ ListFormat
    \/ ListToString
    \/ ListReparse
    \/ ProfileFromStr
    \/ ProfileToString
    \/ ProfileReparse
    \/ XsDateTimeFromStr
    \/ XsDateTimeToString
    \/ XsDateTimeFromStrSame

SpecText == InitText /\ [][NextText]_vars

-----------------------------------------------------------------------------
(* C1: round trip of durations: for every XsDuration value v,              *)
(* XsDuration::from_str(&v.to_string()) returns Ok(v).                     *)
C1_DurationRoundTrip ==
    (op = "XsDuration::to_string" /\ op2 = "XsDuration::from_str") => out2 = Ok(arg.v)

(* C2: every Ratio value is stored in lowest terms whatever its route:    *)
(* Ratio::from_str("1920:1080") is the pair (16, 9), and                   *)
(* Ratio::from_str("a:b") == Ratio::from((a, b)) for all a, b.             *)
C2_RatioLowestTerms ==
    /\ (op = "Ratio::from_str" /\ arg.kind = "text"
            /\ arg.s = <<"1", "9", "2", "0", ":", "1", "0", "8", "0">>)
        => out = Ok(Ratio(<<1, 6>>, <<9>>))
    /\ (op = "Ratio::from" /\ op2 = "Ratio::from_str") => out2 = out

(* C3: ProducerReferenceTimeBuilder::build(), with id, wall_clock_time     *)
(* and presentation_time set, enforces the conditional in both             *)
(* directions: type = Application without application_scheme fails, type   *)
(* = Application with application_scheme succeeds, and type unset or       *)
(* different from Application with application_scheme set fails.           *)
C3_ProducerReferenceTimeConditional ==
    (/\ ent = "ProducerReferenceTime" /\ IsSome(built)
     /\ IsSome(builder.id) /\ IsSome(builder.wall_clock_time)
     /\ IsSome(builder.presentation_time))
    => LET application == builder.type = Some(Some("Application"))
           scheme      == IsSome(builder.application_scheme)
       IN  /\ (application /\ ~scheme) => IsErr(built.v)
           /\ (application /\ scheme) => IsOk(built.v)
           /\ (~application /\ scheme) => IsErr(built.v)

(* C4: MPDBuilder::build() with type = Dynamic fails when                  *)
(* availability_start_time or publish_time was not set and succeeds when   *)
(* both are set, profiles being a non-empty list; with type unset or       *)
(* Static neither timestamp is required.                                   *)
C4_MPDDynamicTimestamps ==
    (ent = "MPD" /\ IsSome(built) /\ IsNonEmpty(builder.profiles))
    => LET dynamic == builder.type = Some(Some("Dynamic"))
           both    == IsSome(builder.availability_start_time) /\ IsSome(builder.publish_time)
       IN  /\ (dynamic /\ ~both) => IsErr(built.v)
           /\ (dynamic /\ both) => IsOk(built.v)
           /\ ~dynamic => IsOk(built.v)

\* A dynamic MPD with one timestamp failed to build.
C4_Witness ==
    /\ ent = "MPD"
    /\ IsNonEmpty(builder.profiles)
    /\ builder.type = Some(Some("Dynamic"))
    /\ IsSome(builder.availability_start_time)
    /\ IsNone(builder.publish_time)
    /\ IsSome(built)
    /\ IsErr(built.v)

(* C5: MetricsBuilder::build() fails whenever reporting is unset or empty, *)
(* whatever the other fields hold; so do FailoverContentBuilder with       *)
(* fcs_list and ContentPopularityRateBuilder with popularity_rates; with   *)
(* a non-empty collection and the other required fields set, build()       *)
(* succeeds.                                                               *)
C5_NonEmptyCollection ==
    IsSome(built) =>
        /\ ent = "Metrics" =>
            /\ ~IsNonEmpty(builder.reporting) => IsErr(built.v)
            /\ (IsNonEmpty(builder.reporting) /\ IsSome(builder.metrics)) => IsOk(built.v)
        /\ ent = "FailoverContent" =>
            (IsNonEmpty(builder.fcs_list) <=> IsOk(built.v))
        /\ ent = "ContentPopularityRate" =>
            /\ ~IsNonEmpty(builder.popularity_rates) => IsErr(built.v)
            /\ (IsNonEmpty(builder.popularity_rates) /\ IsSome(builder.source))
                => IsOk(built.v)

\* A Metrics with its other fields set and an empty reporting vector
\* failed to build.
C5_Witness ==
    /\ ent = "Metrics"
    /\ IsSome(builder.metrics)
    /\ IsSome(builder.range)
    /\ builder.reporting = Some(<<>>)
    /\ IsSome(built)
    /\ IsErr(built.v)

(* C6: Codecs::from_str(s) yields the Fancy variant exactly when s holds  *)
(* a quote or a dot and matches the fancy grammar, the Simp variant        *)
(* exactly when s holds neither and matches the simple grammar, and an     *)
(* error otherwise, as for a semicolon separator; for every accepted s     *)
(* the result's to_string() equals s.                                      *)
C6_CodecsDisambiguation ==
    op = "Codecs::from_str" =>
        LET s     == arg.s
            fancy == (Contains(s, "'") \/ Contains(s, ".")) /\ IsSome(PATTERN_FANCY(s))
            simp  == ~Contains(s, "'") /\ ~Contains(s, ".") /\ PATTERN_SIMPLE(s)
        IN  /\ fancy <=> (IsOk(out) /\ out.v.variant = "Fancy")
            /\ simp <=> (IsOk(out) /\ out.v.variant = "Simp")
            /\ (~fancy /\ ~simp) <=> IsErr(out)
            /\ Contains(s, ";") => IsErr(out)
            /\ op2 = "Codecs::to_string" => out2 = Ok(s)

\* A text with a charset, a language and a dotted id was parsed as Fancy and
\* formatted back.
C6_Witness ==
    /\ op = "Codecs::from_str"
    /\ IsOk(out)
    /\ out.v.variant = "Fancy"
    /\ out.v.list.charset = Some(<<"U", "T", "F", "-", "8">>)
    /\ out.v.list.language = Some(<<"e", "n">>)
    /\ Len(out.v.list.codecs) = 2
    /\ op2 = "Codecs::to_string"
    /\ out2 = Ok(arg.s)

(* C7: every SingleByteRange value with a last bound has last >= first,    *)
(* by from_str, From<u32>, TryFrom<(u32, u32)> and Default;                *)
(* from_str("500-499") and try_from((500, 499)) fail, from_str("0-499")    *)
(* gives first = 0, last = 499, and from_str("500-") gives an open end.    *)
C7_ByteRangeOrdered ==
    /\ (op \in SingleByteRangeOps /\ IsOk(out) /\ IsSome(out.v.last))
        => BigLeq(out.v.first, out.v.last.v)
    /\ (op = "SingleByteRange::from_str" /\ arg.s = <<"5", "0", "0", "-", "4", "9", "9">>)
        => IsErr(out)
    /\ (op = "SingleByteRange::try_from" /\ arg.a = <<5, 0, 0>> /\ arg.b = <<4, 9, 9>>)
        => IsErr(out)
    /\ (op = "SingleByteRange::from_str" /\ arg.s = <<"0", "-", "4", "9", "9">>)
        => out = Ok(SingleByteRange(<<0>>, Some(<<4, 9, 9>>)))
    /\ (op = "SingleByteRange::from_str" /\ arg.s = <<"5", "0", "0", "-">>)
        => out = Ok(SingleByteRange(<<5, 0, 0>>, None))

\* A range with both bounds was built from a pair and from a text.
C7_Witness ==
    /\ op = "SingleByteRange::try_from"
    /\ arg.a = <<4, 9, 9>> /\ arg.b = <<5, 0, 0>>
    /\ out = Ok(SingleByteRange(<<4, 9, 9>>, Some(<<5, 0, 0>>)))
    /\ op2 = "SingleByteRange::to_string"

(* C8: FrameRate::from_str on text without a '/' uses denominator 1, so    *)
(* "30" formats back as "30/1"; text with denominator 0 is rejected, and   *)
(* every FrameRate value, parsed or Default, has a non-zero denominator.   *)
C8_FrameRateDenominator ==
    /\ (op = "FrameRate::from_str" /\ ~Contains(arg.s, "/") /\ IsOk(ParseU32(arg.s)))
        => (IsOk(out) /\ out.v.value.denom = <<1>>)
    /\ (op = "FrameRate::from_str" /\ arg.s = <<"3", "0">> /\ op2 = "FrameRate::to_string")
        => out2 = Ok(<<"3", "0", "/", "1">>)
    /\ (op = "FrameRate::from_str" /\ Len(Split(arg.s, "/")) = 2
            /\ ParseU32(Split(arg.s, "/")[2]) = Ok(BigZero))
        => IsErr(out)
    /\ (op \in {"FrameRate::from_str", "FrameRate::default"} /\ IsOk(out))
        => ~BigIsZero(out.v.value.denom)

\* "30" was parsed and formatted back.
C8_Witness ==
    /\ op = "FrameRate::from_str"
    /\ arg.s = <<"3", "0">>
    /\ op2 = "FrameRate::to_string"
    /\ out2 = Ok(<<"3", "0", "/", "1">>)

\* The from_str operations of the scalar types.
FromStrOps ==
    {"XsDuration::from_str", "Ratio::from_str", "FrameRate::from_str",
     "SingleByteRange::from_str", "FourCC::from_str", "Codecs::from_str",
     "FancyList::from_str", "SimpList::from_str"}

(* C9: parsing never panics: from_str returns Ok or Err for every input,   *)
(* also when the digit runs of an xs:duration overflow the u64 arithmetic. *)
C9_FromStrNeverPanics ==
    /\ op \in FromStrOps => ~IsPanic(out)
    /\ op2 \in FromStrOps => ~IsPanic(out2)

(* C10: no value conversion aborts the process: Ratio::from((n, d))        *)
(* returns a Ratio for every pair of u32 values, (0, 0) included, and a    *)
(* FourCC built from any u32 or any [u8; 4] can be dereferenced and        *)
(* formatted without panicking.                                            *)
C10_ConversionsNeverPanic ==
    /\ op = "Ratio::from" => IsOk(out)
    /\ (op \in {"FourCC::from_u32", "FourCC::from_bytes"}
            /\ op2 \in {"FourCC::deref", "FourCC::to_string"})
        => IsOk(out2)

\* The item text is the one its element type writes: any text for a String,
\* for a u32 digits only, without a sign and without leading zeros.
C11_Canonical(t, item) ==
    \/ t = "String"
    \/ /\ item # <<>>
       /\ \A i \in 1..Len(item) : IsDigit(item[i])
       /\ Len(item) = 1 \/ item[1] # "0"
       /\ Len(item) < 10 \/ item = UIntToString(U32_MAX)

\* The input is made of items and of single spaces between them only.
C11_SingleSpaces ==
    /\ arg.lead = <<>>
    /\ arg.trail = <<>>
    /\ arg.sep = <<" ">>

(* C11 as stated: the empty string parses to the empty list and the empty  *)
(* list formats to the empty string; for any string made of valid elements *)
(* separated by single spaces, format(parse(s)) == s.                      *)
C11_ListRoundTripAnyElement ==
    /\ (op = "WhitespaceSeparatedList::from_str" /\ arg.s = <<>>) => out = Ok(<<>>)
    /\ (op = "WhitespaceSeparatedList::to_string" /\ arg.value = <<>>) => out = Ok(<<>>)
    /\ (op2 = "WhitespaceSeparatedList::to_string" /\ arg.kind = "list_text" /\ C11_SingleSpaces)
        => out2 = Ok(arg.s)

(* C11, amended: the empty string parses to the empty list and the empty   *)
(* list formats to the empty string; for any string made of elements in    *)
(* the text form their type writes, separated by single spaces,            *)
(* format(parse(s)) == s; and whatever whitespace precedes, separates and  *)
(* follows such elements, format(parse(s)) is the elements joined by       *)
(* single spaces.                                                          *)
C11_ListNormalForm ==
    /\ (op = "WhitespaceSeparatedList::from_str" /\ arg.s = <<>>) => out = Ok(<<>>)
    /\ (op = "WhitespaceSeparatedList::to_string" /\ arg.value = <<>>) => out = Ok(<<>>)
    /\ (/\ op = "WhitespaceSeparatedList::from_str"
        /\ \A i \in 1..Len(arg.elems) : C11_Canonical(arg.t, arg.elems[i]))
        => /\ IsOk(out)
           /\ Len(out.v) = Len(arg.elems)
           /\ op2 = "WhitespaceSeparatedList::to_string"
                => /\ out2 = Ok(Join(arg.elems, " "))
                   /\ C11_SingleSpaces => out2 = Ok(arg.s)

\* Two canonical elements separated by a run of whitespace were parsed and
\* formatted, and so were two separated by one space.
C11_Witness ==
    /\ op2 = "WhitespaceSeparatedList::to_string"
    /\ arg.kind = "list_text"
    /\ arg.t = "u32"
    /\ arg.elems = <<<<"4", "2">>, <<"1">>>>
    /\ arg.sep = <<"\r", "\n">>
    /\ arg.lead = <<" ">>
    /\ out2 = Ok(<<"4", "2", " ", "1">>)

(* C12: WhitespaceSeparatedList::from_str fails as a whole as soon as one  *)
(* element fails to parse, and the error it returns is the error that      *)
(* T::from_str gave for the first failing element, unchanged.              *)
C12_ListErrorUnchanged ==
    LET failing == {i \in 1..Len(arg.elems) : IsErr(Element_from_str(arg.t, arg.elems[i]))}
    IN  (op = "WhitespaceSeparatedList::from_str" /\ arg.kind = "list_text" /\ failing # {})
            => out = Element_from_str(arg.t, arg.elems[CHOOSE i \in failing :
                                                          \A j \in failing : i <= j])

\* s is a URI in the form of RFC 3986: a scheme, a colon and a part that
\* is not empty and holds no white space.
C13_IsUri(s) ==
    \E i \in 2..(Len(s) - 1) :
        /\ s[i] = ":"
        /\ s[1] \in Letters
        /\ \A j \in 1..(i - 1) : s[j] \in Alnum \cup {"+", "-", "."}
        /\ \A j \in 1..Len(s) : ~IsWhitespace(s[j])

(* C13: Profile::from_str returns the well-known variant when the text is  *)
(* one of the well-known profile URNs; any other text that is a URI falls  *)
(* back to Profile::Other(text) rather than failing; and for each          *)
(* well-known variant p, from_str(p.to_string()) == p.                     *)
C13_ProfileEscapeHatch ==
    /\ op = "Profile::from_str" =>
          /\ \A i \in 1..Len(WellKnownProfiles) :
                 arg.s = WellKnownProfiles[i][2] => out = Ok([variant |-> WellKnownProfiles[i][1]])
          /\ (/\ C13_IsUri(arg.s)
              /\ \A i \in 1..Len(WellKnownProfiles) : arg.s # WellKnownProfiles[i][2])
                 => out = Ok([variant |-> "Other", text |-> arg.s])
    /\ op2 = "Profile::from_str" => out2 = Ok(arg.p)

(* C14: MPDBuilder::build() fills xmlns with MPD_NAMESPACE, xmlns:xsi with *)
(* MPD_SCHEMA_INSTANCE and xsi:schemaLocation with the pair                *)
(* [MPD_NAMESPACE, MPD_SCHEMA_FILE] whenever the caller did not set them,  *)
(* and keeps the caller's value for each of them when it was set.          *)
C14_MPDDefaults ==
    (ent = "MPD" /\ IsSome(built) /\ IsOk(built.v)) =>
        /\ built.v.v.xmlns =
              IF IsNone(builder.xmlns) THEN Some("urn:mpeg:dash:schema:mpd:2011")
              ELSE Some("urn:example:mpd")
        /\ built.v.v.xmlns_xsi =
              IF IsNone(builder.xmlns_xsi) THEN Some("http://www.w3.org/2001/XMLSchema-instance")
              ELSE Some("urn:example:xsi")
        /\ built.v.v.xsi_schema_location =
              IF IsNone(builder.xsi_schema_location)
              THEN Some(<<"urn:mpeg:dash:schema:mpd:2011", "DASH-MPD.xsd">>)
              ELSE Some(<<"urn:example:mpd", "example.xsd">>)

\* An MPD was built with xmlns set by the caller and the other two left out.
C14_Witness ==
    /\ ent = "MPD"
    /\ IsSome(built)
    /\ IsOk(built.v)
    /\ IsSome(builder.xmlns)
    /\ IsNone(builder.xmlns_xsi)
    /\ IsNone(builder.xsi_schema_location)
    /\ built.v.v.xmlns = Some("urn:example:mpd")
    /\ built.v.v.xmlns_xsi = Some(MPD_SCHEMA_INSTANCE)

(* C15: PopularityRateBuilder::build() succeeds if and only if             *)
(* popularity_rate was set to a value in the closed interval [1, 100]      *)
(* (unset, 0 and 101 all fail); SegmentBuilder::build() succeeds if and    *)
(* only if duration was set to a value greater than 0.                     *)
C15_NumericRange ==
    /\ (ent = "PopularityRate" /\ IsSome(built)) =>
          (IsOk(built.v) <=> builder.popularity_rate \in {Some(n) : n \in 1..100})
    /\ (ent = "Segment" /\ IsSome(built)) =>
          (IsOk(built.v) <=> (IsSome(builder.duration) /\ builder.duration.v > 0))

\* A PopularityRate of rate 100 was built.
C15_Witness ==
    /\ ent = "PopularityRate"
    /\ IsSome(built)
    /\ IsOk(built.v)
    /\ built.v.v.popularity_rate = 100

\* The fields an entity requires.
C16_Required ==
    [Descriptor |-> {"scheme_id_uri"}, EventStream |-> {"scheme_id_uri"},
     Switching |-> {"interval"}, RandomAccess |-> {"interval"}, UIntVWithID |-> {"id"},
     ServiceDescription |-> {"id"}, Subset |-> {"contains"},
     Preselection |-> {"preselection_components"}, Fcs |-> {"start_time"},
     LeapSecondInformation |-> {"availability_start_leap_offset"},
     ModelPair |-> {"buffer_time", "bandwidth"}, Representation |-> {"id", "bandwidth"}]

C17_SetterReplaces ==
    (arg'.kind = "setter" /\ built' = None) =>
        /\ \E i \in 1..Len(Entities[ent]) :
              /\ Entities[ent][i].name = arg'.field
              /\ builder'[arg'.field] =
                    IF Entities[ent][i].optional THEN Some(Some(arg'.value))
                    ELSE Some(arg'.value)
        /\ \A f \in DOMAIN builder : f # arg'.field => builder'[f] = builder[f]

\* The entity built holds, for every field that was set, the value the
\* builder holds for it.
C17_BuiltFromBuilder ==
    (IsSome(built') /\ IsOk(built'.v)) =>
        \A f \in DOMAIN builder' : IsSome(builder'[f]) => built'.v.v[f] = builder'[f].v

(* C17 as stated: for every entity builder, setters may be called in any   *)
(* order and any number of times, and the built entity depends only on the *)
(* last value written to each field: a later call to a field's setter      *)
(* replaces the value of an earlier call, also for                         *)
(* SegmentTimelineBuilder::segment and segments.                           *)
C17_LastWriteWinsEverySetter ==
    [][/\ C17_SetterReplaces
       /\ C17_BuiltFromBuilder
       /\ (arg'.kind = "segment" /\ built' = None) => builder'.segments = Some(<<arg'.value>>)
       /\ (arg'.kind = "segments" /\ built' = None) => builder'.segments = Some(arg'.value)]_vars

(* C17, amended: for every entity builder, the derived setters may be      *)
(* called in any order and any number of times, and a later call to a      *)
(* field's setter replaces the value of an earlier call, so the built      *)
(* entity depends only on the last value written to each such field; the   *)
(* custom setters SegmentTimelineBuilder::segment and segments append to   *)
(* the segments written before.                                            *)
C17_LastWriteWins ==
    [][/\ C17_SetterReplaces
       /\ C17_BuiltFromBuilder
       /\ (arg'.kind = "segment" /\ built' = None) =>
             builder'.segments =
                Some((IF IsSome(builder.segments) THEN builder.segments.v ELSE <<>>)
                        \o <<arg'.value>>)
       /\ (arg'.kind = "segments" /\ built' = None) =>
             builder'.segments =
                Some((IF IsSome(builder.segments) THEN builder.segments.v ELSE <<>>)
                        \o arg'.value)]_vars

\* A Segment was built after its start time was set and its duration was
\* written last, to 5.
C17_Witness ==
    /\ ent = "Segment"
    /\ IsSome(built)
    /\ IsOk(built.v)
    /\ arg = [kind |-> "setter", field |-> "duration", value |-> 5]
    /\ built.v.v.duration = 5
    /\ built.v.v.start_time = Some(0)

\* The lexical pattern of the type that operation o parses matches the
\* whole of the text s.
C18_Matches(o, s) ==
    CASE o = "XsId::from_str" -> PATTERN_NC_NAME(s)
      [] o = "XsLanguage::from_str" -> LANGUAGE(s)
      [] o = "NoWhitespace::from_str" -> PATTERN_NO_WHITESPACE(s)

C18_Ops == {"XsId::from_str", "XsLanguage::from_str", "NoWhitespace::from_str"}

(* C18 as stated: constructing a NoWhitespace, XsId or XsLanguage from     *)
(* text fails unless the type's lexical pattern matches the entire input   *)
(* string as given; leading or trailing whitespace is not tolerated.       *)
C18_WholeInputAsGiven ==
    (op \in C18_Ops /\ IsOk(out)) =>
        /\ C18_Matches(op, arg.s)
        /\ arg.lead = <<>>
        /\ arg.trail = <<>>

(* C18, amended: constructing a NoWhitespace from text fails unless its    *)
(* pattern matches the entire input string as given; constructing an XsId  *)
(* or an XsLanguage fails unless the type's pattern matches the entire     *)
(* input without its leading and trailing whitespace, and the value then   *)
(* holds that trimmed text; whitespace inside the text is never tolerated. *)
C18_WholeInput ==
    /\ op = "NoWhitespace::from_str" =>
          /\ IsOk(out) <=> (C18_Matches(op, arg.s) /\ arg.lead = <<>> /\ arg.trail = <<>>)
          /\ IsOk(out) => out.v.value = arg.s
    /\ op \in {"XsId::from_str", "XsLanguage::from_str"} =>
          /\ IsOk(out) <=> C18_Matches(op, arg.core)
          /\ IsOk(out) => out.v.value = arg.core
          /\ (\E i \in 1..Len(arg.core) : IsWhitespace(arg.core[i])) => IsErr(out)
    /\ (op2 = "to_string" /\ op # "NoWhitespace::from_str") => out2 = Ok(arg.core)

\* XsId::from_str("  _my.Element") was accepted and formatted.
C18_Witness ==
    /\ op = "XsId::from_str"
    /\ arg.s = <<" ", " ", "_", "m", "y", ".", "E", "l", "e", "m", "e", "n", "t">>
    /\ op2 = "to_string"
    /\ out2 = Ok(<<"_", "m", "y", ".", "E", "l", "e", "m", "e", "n", "t">>)

(* C19: XsDateTime is normalized to UTC: a text with an explicit offset    *)
(* parses to the UTC instant it denotes and formats as the UTC date and    *)
(* time with the suffix Z ("2004-04-12T13:20:00-05:00" formats as          *)
(* "2004-04-12T18:20:00Z"), and a text of the same instant at another      *)
(* offset parses to an equal value.                                        *)
C19_NormalizedToUtc ==
    (op = "XsDateTime::from_str" /\ arg.kind = "datetime_text") =>
        /\ out = Ok([value |-> [days |-> arg.days, secs |-> arg.secs, nanos |-> arg.nanos]])
        /\ op2 = "XsDateTime::to_string" =>
              /\ out2 = Ok(arg.utc)
              /\ out2.v[Len(out2.v)] = "Z"
        /\ op2 = "XsDateTime::from_str" => out2 = out

C19_Witness ==
    /\ op = "XsDateTime::from_str"
    /\ arg.kind = "datetime_text"
    /\ arg.s = <<"2", "0", "0", "4", "-", "0", "4", "-", "1", "2", "T", "1", "3", ":", "2", "0",
                 ":", "0", "0", "-", "0", "5", ":", "0", "0">>
    /\ op2 = "XsDateTime::to_string"
    /\ out2 = Ok(<<"2", "0", "0", "4", "-", "0", "4", "-", "1", "2", "T", "1", "8", ":", "2", "0",
                   ":", "0", "0", "Z">>)

\* The places of the dashes of a text.
C20_Dashes(s) == {i \in 1..Len(s) : s[i] = "-"}

\* The text before and the text after the one dash of a text.
C20_Left(s) == SubSeq(s, 1, (CHOOSE i \in C20_Dashes(s) : TRUE) - 1)

C20_Right(s) == SubSeq(s, (CHOOSE i \in C20_Dashes(s) : TRUE) + 1, Len(s))

\* A text of decimal digits that is a number of a u32.
C20_Number(t) == t # <<>> /\ (\A i \in 1..Len(t) : IsDigit(t[i])) /\ IsOk(ParseU32(t))

\* A text with a character that no number has: one that is no digit and is
\* no sign at the start.
C20_NonNumeric(t) == \E i \in 1..Len(t) : ~IsDigit(t[i]) /\ ~(i = 1 /\ t[i] = "+")

\* The parts of the grammar that hold of the code: an empty right side is
\* an open end, and more than one dash or a non-numeric part is rejected.
C20_OpenEndAndRejects ==
    LET s == arg.s
    IN  /\ (Cardinality(C20_Dashes(s)) = 1 /\ C20_Number(C20_Left(s)) /\ C20_Right(s) = <<>>) =>
              out = Ok(SingleByteRange(ParseU32(C20_Left(s)).v, None))
        /\ Cardinality(C20_Dashes(s)) > 1 => IsErr(out)
        /\ (Cardinality(C20_Dashes(s)) = 1
                /\ (C20_NonNumeric(C20_Left(s)) \/ C20_NonNumeric(C20_Right(s)))) => IsErr(out)

(* C20, as stated: SingleByteRange::from_str splits the input once on '-'; *)
(* an empty left side is accepted (no start bound), an empty right side is *)
(* accepted (an open end), and an input with more than one dash or with a  *)
(* non-numeric part is rejected.                                           *)
C20_ByteRangeGrammarEmptyLeft ==
    (op = "SingleByteRange::from_str" /\ arg.kind = "text") =>
        /\ C20_OpenEndAndRejects
        /\ (Cardinality(C20_Dashes(arg.s)) = 1 /\ C20_Left(arg.s) = <<>>
                /\ C20_Number(C20_Right(arg.s))) => IsOk(out)

(* C20, amended: SingleByteRange::from_str takes a text with one '-'; an   *)
(* empty left side is rejected, an empty right side is accepted and means  *)
(* an open end, and an input with more than one dash or with a non-numeric *)
(* part is rejected.                                                       *)
C20_ByteRangeGrammar ==
    (op = "SingleByteRange::from_str" /\ arg.kind = "text") =>
        /\ C20_OpenEndAndRejects
        /\ (Cardinality(C20_Dashes(arg.s)) = 1 /\ C20_Left(arg.s) = <<>>) => IsErr(out)

C20_Witness ==
    /\ op = "SingleByteRange::from_str"
    /\ arg.kind = "text"
    /\ arg.s = <<"-", "4", "9", "9">>
    /\ IsErr(out)

\* The fields of the three segment-addressing schemes.
C21_Schemes == {"segment_base", "segment_list", "segment_template"}

(* C21: the segment-addressing schemes are not policed at build time:      *)
(* PeriodBuilder and AdaptationSetBuilder build successfully, and          *)
(* RepresentationBuilder builds successfully once id and bandwidth are     *)
(* set, with any combination of segment_base, segment_list and             *)
(* segment_template set, two or all three at once too; and every scheme    *)
(* that was set is kept in the built entity.                               *)
C21_SchemesNotPoliced ==
    (ent \in {"Period", "AdaptationSet", "Representation"} /\ IsSome(built)) =>
        /\ IsOk(built.v) <=>
              (ent = "Representation" => IsSome(builder.id) /\ IsSome(builder.bandwidth))
        /\ IsOk(built.v) =>
              \A f \in C21_Schemes :
                  built.v.v[f] = IF IsSome(builder[f]) THEN builder[f].v ELSE None

\* A Representation was built with all three schemes set.
C21_Witness ==
    /\ ent = "Representation"
    /\ \A f \in C21_Schemes : IsSome(builder[f])
    /\ IsSome(built)
    /\ IsOk(built.v)
    /\ built.v.v.segment_base = Some("SegmentBase")
    /\ built.v.v.segment_list = Some("SegmentList")
    /\ built.v.v.segment_template = Some("SegmentTemplate")

\* The place of the i-th piece of a duration text in the order Y, M
\* (months), D, H, M (minutes), S: an M is months before the first T and
\* minutes after it.
C22_Rank(toks, i) ==
    LET afterT == \E j \in 1..(i - 1) : toks[j].unit = "T"
    IN  CASE toks[i].unit = "Y" -> 1
          [] toks[i].unit = "M" -> IF afterT THEN 6 ELSE 2
          [] toks[i].unit = "D" -> 3
          [] toks[i].unit = "H" -> 5
          [] toks[i].unit = "S" -> 7

\* Some designator is repeated, or comes after one that the order puts
\* behind it.
C22_Disordered(toks) ==
    \E i, j \in 1..Len(toks) :
        /\ i < j
        /\ toks[i].unit \notin {"T", ""}
        /\ toks[j].unit \notin {"T", ""}
        /\ C22_Rank(toks, i) >= C22_Rank(toks, j)

(* C22: XsDuration::from_str accepts each unit designator at most once and *)
(* only in the order Y, M, D, then T, then H, M, S: every input that       *)
(* repeats a designator or presents designators out of this order is       *)
(* rejected, "P2M1Y" and "P1YM5D" among them.                              *)
C22_OnceAndInOrder ==
    (op = "XsDuration::from_str" /\ arg.kind = "duration_tokens") =>
        /\ C22_Disordered(arg.toks) => IsErr(out)
        /\ arg.s \in {<<"P", "2", "M", "1", "Y">>, <<"P", "1", "Y", "M", "5", "D">>} => IsErr(out)

\* The seconds of the pieces of a duration text when an M before the first
\* T is months of 30 days and an M after it is minutes (pieces without
\* digits or without a letter count nothing).
RECURSIVE C23_Seconds(_, _)
C23_Seconds(toks, i) ==
    IF i > Len(toks) THEN 0
    ELSE LET n      == DigitsToInt(DigitsOf(toks[i].run))
             afterT == \E j \in 1..(i - 1) : toks[j].unit = "T"
             unit   == CASE toks[i].unit = "Y" -> 365 * 86400
                         [] toks[i].unit = "M" -> IF afterT THEN 60 ELSE 30 * 86400
                         [] toks[i].unit = "D" -> 86400
                         [] toks[i].unit = "H" -> 3600
                         [] toks[i].unit = "S" -> 1
                         [] OTHER -> 0
         IN  n * unit + C23_Seconds(toks, i + 1)

(* C23: XsDuration::from_str accepts the date units Y, M (months) and D    *)
(* only before the T marker and the time units H, M (minutes) and S only   *)
(* after it: a Y or a D after T and an H or an S before T are rejected     *)
(* ("P1D2H" fails), and an M is counted as months of 30 days before T and  *)
(* as minutes after T.                                                     *)
C23_DateBeforeTimeAfter ==
    (op = "XsDuration::from_str" /\ arg.kind = "duration_tokens") =>
        LET toks      == arg.toks
            afterT(i) == \E j \in 1..(i - 1) : toks[j].unit = "T"
        IN  /\ (\E i \in 1..Len(toks) : toks[i].unit \in {"Y", "D"} /\ afterT(i)) => IsErr(out)
            /\ (\E i \in 1..Len(toks) : toks[i].unit \in {"H", "S"} /\ ~afterT(i)) => IsErr(out)
            /\ arg.s = <<"P", "1", "D", "2", "H">> => IsErr(out)
            /\ (IsOk(out) /\ \A i \in 1..Len(toks) : toks[i].unit # "") =>
                  out.v.value = Duration(BigFromInt(C23_Seconds(toks, 1)), BigZero)

\* "P2MT2M" was parsed: two months and two minutes.
C23_Witness ==
    /\ op = "XsDuration::from_str"
    /\ arg.kind = "duration_tokens"
    /\ arg.s = <<"P", "2", "M", "T", "2", "M">>
    /\ out = Ok(XsDuration(Duration(BigFromInt(5184120), BigZero), FALSE))

(* C24: XsDuration::from_str rejects every input in which a T marker is    *)
(* not followed by at least one complete time component, a digit run       *)
(* terminated by H, M or S: "P20MT" is rejected, and so is any input whose *)
(* text after T has no unit letter.                                        *)
C24_TimePartNotEmpty ==
    (op = "XsDuration::from_str" /\ arg.kind = "duration_tokens") =>
        LET toks == arg.toks
        IN  /\ (\E i \in 1..Len(toks) :
                    /\ toks[i].unit = "T"
                    /\ ~\E j \in (i + 1)..Len(toks) :
                            toks[j].unit \in {"H", "M", "S"} /\ toks[j].run # <<>>)
                  => IsErr(out)
            /\ arg.s = <<"P", "2", "0", "M", "T">> => IsErr(out)

(* C25: XsDuration::from_str accepts a well-formed duration whose only     *)
(* component is seconds ("PT30S", "PT0.5S") and returns that many seconds: *)
(* consuming the S unit alone satisfies the requirement that at least one  *)
(* unit was consumed.                                                      *)
C25_SecondsAlone ==
    /\ (op = "XsDuration::from_str" /\ arg.kind = "duration_tokens"
            /\ Len(arg.toks) = 2 /\ arg.toks[1].unit = "T"
            /\ arg.toks[2].unit = "S" /\ arg.toks[2].run # <<>>) =>
          out = Ok(XsDuration(Duration(BigFromInt(DigitsToInt(DigitsOf(arg.toks[2].run))),
                                       BigZero), arg.neg))
    /\ (op = "XsDuration::from_str" /\ arg.kind = "duration_text"
            /\ arg.s = <<"P", "T", "0", ".", "5", "S">>) =>
          out = Ok(XsDuration(Duration(BigZero, BigFromInt(500000000)), FALSE))

\* The seconds field of a duration as a decimal of the value
\* seconds + nanos / 10^9: the seconds of the minute, '.', and the nine
\* digits of the nanoseconds without their trailing zeros.
C26_SecondsField(d) ==
    UIntToString(BigFromInt(DivSmall(d.value.secs, 60).r)) \o <<".">>
        \o UIntToString(TrimTrailingZeros(PadTo(d.value.nanos, 9)))

(* C26: for every XsDuration with a non-zero sub-second part, Display      *)
(* writes the seconds field as a decimal whose value is exactly            *)
(* seconds + nanos / 10^9: the fraction digits keep their leading zeros    *)
(* and only trailing zeros are trimmed (1 s + 5,000,000 ns is "PT1.005S",  *)
(* 30 s + 500,000,000 ns is "PT30.5S").                                    *)
C26_FractionKeepsLeadingZeros ==
    (op = "XsDuration::to_string" /\ arg.kind = "XsDuration" /\ ~BigIsZero(arg.v.value.nanos)) =>
        LET field == C26_SecondsField(arg.v) \o <<"S">>
            text  == out.v
            from  == Len(text) - Len(field) + 1
        IN  /\ from > 1
            /\ SubSeq(text, from, Len(text)) = field
            /\ ~IsDigit(text[from - 1])

\* The number of the component of a unit letter on one side of the T
\* marker in the pieces of a duration text, 0 when there is none.
C27_Part(toks, unit, afterT) ==
    LET at == {i \in 1..Len(toks) :
                  /\ toks[i].unit = unit
                  /\ afterT = (\E j \in 1..(i - 1) : toks[j].unit = "T")}
    IN  IF at = {} THEN 0 ELSE DigitsToInt(DigitsOf(toks[CHOOSE i \in at : TRUE].run))

\* T = ((365 * Y + 30 * Mo + D) * 24 + H) * 3600 + Mi * 60 + S
C27_Total(toks) ==
    ((365 * C27_Part(toks, "Y", FALSE) + 30 * C27_Part(toks, "M", FALSE)
            + C27_Part(toks, "D", FALSE)) * 24 + C27_Part(toks, "H", TRUE)) * 3600
        + C27_Part(toks, "M", TRUE) * 60 + C27_Part(toks, "S", TRUE)

\* A number with its unit letter, or nothing for 0.
C27_Unit(n, unit) == IF n = 0 THEN <<>> ELSE UIntToString(BigFromInt(n)) \o <<unit>>

\* The flattened rendering of T seconds with a sign.
C27_Flattened(neg, total) ==
    (IF neg THEN <<"-", "P", "T">> ELSE <<"P", "T">>)
        \o C27_Unit(total \div 3600, "H") \o C27_Unit((total % 3600) \div 60, "M")
        \o C27_Unit(total % 60, "S")

C28_Held(b) == IF IsSome(b.segments) THEN b.segments.v ELSE <<>>

\* A step of a SegmentTimelineBuilder: a call of segment or of segments
\* puts its items, in their order, behind the segments held, and build()
\* gives the segments held, in their order.
C28_Step ==
    ent = "SegmentTimeline" =>
        /\ (built = None /\ built' = None /\ arg'.kind = "segment") =>
              C28_Held(builder') = C28_Held(builder) \o <<arg'.value>>
        /\ (built = None /\ built' = None /\ arg'.kind = "segments") =>
              C28_Held(builder') = C28_Held(builder) \o arg'.value
        /\ (built = None /\ built' # None) =>
              built' = Some(Ok([segments |-> C28_Held(builder)]))

(* C28: SegmentTimelineBuilder accumulates: after any sequence of          *)
(* segment(s) and segments(iter) calls, the built SegmentTimeline contains *)
(* every supplied Segment exactly once, in the order of the calls and of   *)
(* the items within each call (segments([s1, s2]) then segment(s3) builds  *)
(* [s1, s2, s3]); a timeline built with no such call is empty.             *)
C28_Accumulates == [][C28_Step]_vars

\* segments([s1, s2]) and then segment(s3) were called, and [s1, s2, s3]
\* was built.
C28_Witness ==
    /\ ent = "SegmentTimeline"
    /\ arg.kind = "segment"
    /\ arg.value = [d |-> 5, r |-> 10]
    /\ built = Some(Ok([segments |-> <<[d |-> 5, r |-> 10], [d |-> 5, r |-> 15],
                                      [d |-> 5, r |-> 10]>>]))

\* A step that is a call of build(): the builder is as it was, the results
\* of the earlier calls are as they were, the result is that of the call
\* before when no setter was called in between, and an entity built holds
\* the value of every field that is set in the builder, those set after an
\* earlier build() too.
C29_Step ==
    results' # results =>
        /\ builder' = builder
        /\ SubSeq(results', 1, Len(results)) = results
        /\ (results # <<>> /\ arg.kind = "build") =>
              results'[Len(results')] = results[Len(results)]
        /\ IsOk(results'[Len(results')]) =>
              \A f \in DOMAIN builder :
                  IsSome(builder[f]) => results'[Len(results')].v[f] = builder[f].v

C30_OnlyValidatedEntities ==
    (ent \in LifecycleEntities /\ IsSome(built) /\ IsOk(built.v)) =>
        /\ \E i \in 1..Len(results) : results[i] = built.v
        /\ ent = "Segment" => built.v.v.duration # 0
        /\ ent = "PopularityRate" => built.v.v.popularity_rate \in 1..100
        /\ ent = "FailoverContent" => built.v.v.fcs_list # <<>>

====
